---------------------------- MODULE Spec2Model ----------------------------
(***************************************************************************)
(* A model of the precatorio crawler of src/crawler.py: the pagination     *)
(* loop (fetch_all_precatorios_data), the transport with its retry budget  *)
(* (_fetch_page), the page decoder (normalize_to_rows), the wire-name      *)
(* resolution (_get_base_field_name), the value coercion (_format_value),  *)
(* the record model (models.Precatorio), the resolution of the entity      *)
(* (entity_mapping.py) and its two tables (add_entity_mapping), the        *)
(* request template (get_precatorios_payload), the CSV output (write_csv), *)
(* the full crawl (crawl) and the counter of processed records that the    *)
(* crawls of one instance share.                                           *)
(*                                                                         *)
(* Representation.  A Python str is a sequence of one-character strings    *)
(* (<<"P","1">> is "P1"), so that strip, replace, isalnum and float() are   *)
(* computed character by character.  A wire name is the same kind of       *)
(* sequence at the granularity of lexical tokens (identifier, ".", "(",    *)
(* ")").  A JSON value of the response is a record [ty, s, n]: its Python  *)
(* type, its str() and, for an int, its value.                             *)
(***************************************************************************)
EXTENDS Integers, Sequences, FiniteSets, TLC

VARIABLES
    pc,                      \* position of the crawl: "fetching", "decoding", "done"
                             \* (of one decode: "normalize", "normalized", "written")
    page_num,                \* fetch_all_precatorios_data: page_num
    current_restart_tokens,  \* fetch_all_precatorios_data: current_restart_tokens
    last_order_number,       \* fetch_all_precatorios_data: last_order_number
    all_normalized_rows,     \* fetch_all_precatorios_data: all_normalized_rows
    attempts,                \* HTTP attempts _fetch_page has made for the current page
    page_data_response,      \* the response to the current page (NoResponse before it)
    normalized_page_rows,    \* normalize_to_rows' records of the last decoded page
    decoded_rows,            \* normalize_to_rows' pydantic_input_row of every wire row of that page
    order_start,             \* the starting_order_number of the last normalize_to_rows call
    requests,                \* every HTTP attempt sent so far: [page, token, direction, entity]
    stop_reason,             \* which break/return ended the crawl ("" while it runs)
    last_outcome,            \* how the last HTTP attempt ended ("none" before the first)
    entity_slug,             \* fetch_all_precatorios_data: entity_slug_or_official_name
    api_entity_name,         \* fetch_all_precatorios_data: api_entity_name
    current_entity_processed_records,  \* PrecatoriosCrawler: self.current_entity_processed_records
    csv_file,                \* the rows of the file write_csv wrote (NoFile before it)
    crawls,                  \* the normalize_to_rows calls that run at once on one instance
    cancel_requested,        \* whether the caller of the crawl has asked it to stop
    entity_mapping,          \* entity_mapping.py: the dict ENTITY_MAPPING as it is now
    reverse_entity_mapping,  \* entity_mapping.py: the dict REVERSE_ENTITY_MAPPING as it is now
    base_payload,            \* PrecatoriosCrawler: self.base_payload, the object PAYLOAD_STRUCTURE
    payloads,                \* what the get_precatorios_payload calls made so far returned
    raw_data                 \* the list of pages handed to a normalize_to_rows call

vars == <<pc, page_num, current_restart_tokens, last_order_number,
          all_normalized_rows, attempts, page_data_response,
          normalized_page_rows, decoded_rows, order_start, requests,
          stop_reason, last_outcome, entity_slug, api_entity_name,
          current_entity_processed_records, csv_file, crawls, cancel_requested,
          entity_mapping, reverse_entity_mapping, base_payload, payloads,
          raw_data>>

(***************************************************************************)
(* Python strings                                                          *)
(***************************************************************************)
Digits == {"0", "1", "2", "3", "4", "5", "6", "7", "8", "9"}

UpperToLower ==
    [c \in {"A","B","C","D","E","F","G","H","I","J","K","L","M","N","O","P","Q",
            "R","S","T","U","V","W","X","Y","Z"} |->
        CASE c = "A" -> "a" [] c = "B" -> "b" [] c = "C" -> "c" [] c = "D" -> "d"
          [] c = "E" -> "e" [] c = "F" -> "f" [] c = "G" -> "g" [] c = "H" -> "h"
          [] c = "I" -> "i" [] c = "J" -> "j" [] c = "K" -> "k" [] c = "L" -> "l"
          [] c = "M" -> "m" [] c = "N" -> "n" [] c = "O" -> "o" [] c = "P" -> "p"
          [] c = "Q" -> "q" [] c = "R" -> "r" [] c = "S" -> "s" [] c = "T" -> "t"
          [] c = "U" -> "u" [] c = "V" -> "v" [] c = "W" -> "w" [] c = "X" -> "x"
          [] c = "Y" -> "y" [] c = "Z" -> "z"]

LowerLetters == {UpperToLower[c] : c \in DOMAIN UpperToLower}

IsSpace(c) == c \in {" ", "\t", "\n"}

\* str.isalnum of one character
IsAlnum(c) == c \in Digits \cup DOMAIN UpperToLower \cup LowerLetters

LowerChar(c) == IF c \in DOMAIN UpperToLower THEN UpperToLower[c] ELSE c

\* str.lower
Lower(s) == [i \in DOMAIN s |-> LowerChar(s[i])]

RECURSIVE LStrip(_)
LStrip(s) == IF s # <<>> /\ IsSpace(s[1]) THEN LStrip(Tail(s)) ELSE s

RECURSIVE RStrip(_)
RStrip(s) ==
    IF s # <<>> /\ IsSpace(s[Len(s)]) THEN RStrip(SubSeq(s, 1, Len(s) - 1)) ELSE s

\* str.strip
Strip(s) == RStrip(LStrip(s))

\* c in s
Contains(s, c) == \E i \in DOMAIN s : s[i] = c

\* s.count(c)
Count(s, c) == Cardinality({i \in DOMAIN s : s[i] = c})

\* s.rfind(c): the last index (from 0) of c in s, -1 when absent
RFind(s, c) ==
    IF Contains(s, c)
    THEN (CHOOSE i \in DOMAIN s : s[i] = c /\ \A j \in DOMAIN s : s[j] = c => j <= i) - 1
    ELSE -1

\* s.replace(c, "")
RECURSIVE RemoveChar(_, _)
RemoveChar(s, c) ==
    IF s = <<>> THEN <<>>
    ELSE IF s[1] = c THEN RemoveChar(Tail(s), c)
    ELSE <<s[1]>> \o RemoveChar(Tail(s), c)

\* s.replace(c, d) for single characters
ReplaceChar(s, c, d) == [i \in DOMAIN s |-> IF s[i] = c THEN d ELSE s[i]]

\* s.replace("R$", "")
RECURSIVE RemoveCurrency(_)
RemoveCurrency(s) ==
    IF Len(s) < 2 THEN s
    ELSE IF s[1] = "R" /\ s[2] = "$" THEN RemoveCurrency(SubSeq(s, 3, Len(s)))
    ELSE <<s[1]>> \o RemoveCurrency(Tail(s))

\* sub in s, for a non-empty sub
HasSubstring(s, sub) ==
    \E i \in 1..(Len(s) - Len(sub) + 1) : SubSeq(s, i, i + Len(sub) - 1) = sub

AllDigits(s) == \A i \in DOMAIN s : s[i] \in Digits

DigitVal(c) ==
    CASE c = "0" -> 0 [] c = "1" -> 1 [] c = "2" -> 2 [] c = "3" -> 3 [] c = "4" -> 4
      [] c = "5" -> 5 [] c = "6" -> 6 [] c = "7" -> 7 [] c = "8" -> 8 [] c = "9" -> 9

DigitChar(d) ==
    CASE d = 0 -> "0" [] d = 1 -> "1" [] d = 2 -> "2" [] d = 3 -> "3" [] d = 4 -> "4"
      [] d = 5 -> "5" [] d = 6 -> "6" [] d = 7 -> "7" [] d = 8 -> "8" [] d = 9 -> "9"

\* the value of a digit string (short ones only: the integers of TLC are 32 bits wide)
RECURSIVE DigitsToNat(_)
DigitsToNat(s) ==
    IF s = <<>> THEN 0
    ELSE 10 * DigitsToNat(SubSeq(s, 1, Len(s) - 1)) + DigitVal(s[Len(s)])

RECURSIVE NatToDigits(_)
NatToDigits(n) ==
    IF n < 10 THEN <<DigitChar(n)>>
    ELSE NatToDigits(n \div 10) \o <<DigitChar(n % 10)>>

\* str(n) of an int
IntToStr(n) == IF n < 0 THEN <<"-">> \o NatToDigits(0 - n) ELSE NatToDigits(n)

RECURSIVE StripLeadingZeros(_)
StripLeadingZeros(s) ==
    IF Len(s) > 1 /\ s[1] = "0" THEN StripLeadingZeros(Tail(s)) ELSE s

RECURSIVE StripTrailingZeros(_)
StripTrailingZeros(s) ==
    IF Len(s) > 1 /\ s[Len(s)] = "0"
    THEN StripTrailingZeros(SubSeq(s, 1, Len(s) - 1)) ELSE s

RECURSIVE Zeros(_)
Zeros(k) == IF k <= 0 THEN <<>> ELSE <<"0">> \o Zeros(k - 1)

(***************************************************************************)
(* JSON values of the response                                             *)
(***************************************************************************)
PyNone == [ty |-> "none", s |-> <<"N", "o", "n", "e">>, n |-> 0]
PyStr(s) == [ty |-> "str", s |-> s, n |-> 0]
PyInt(n) == [ty |-> "int", s |-> IntToStr(n), n |-> n]


(***************************************************************************)
(* config.py: the canonical fields                                         *)
(***************************************************************************)
csv_fields ==
    <<"ordem", "processo", "comarca", "ano_orcamento", "natureza", "data_cadastro",
      "tipo_classificacao", "valor_original", "valor_atual", "situacao">>

FieldNames == {csv_fields[i] : i \in DOMAIN csv_fields}

\* FieldConfig.field_mapping; a field without "default" has default None
field_mapping ==
    [f \in FieldNames |->
        CASE f = "ordem" ->
               [type |-> "int", default |-> PyStr(<<"0">>), api_name |-> "dfslcp_num_ordem"]
          [] f = "processo" ->
               [type |-> "processo", default |-> PyNone,
                api_name |-> "dfslcp_dsc_proc_precatorio"]
          [] f = "comarca" ->
               [type |-> "str", default |-> PyStr(<<"-">>), api_name |-> "dfslcp_dsc_comarca"]
          [] f = "ano_orcamento" ->
               [type |-> "int", default |-> PyStr(<<"2", "0", "2", "4">>),
                api_name |-> "dfslcp_num_ano_orcamento"]
          [] f = "natureza" ->
               [type |-> "str", default |-> PyStr(<<"-">>), api_name |-> "dfslcp_dsc_natureza"]
          [] f = "data_cadastro" ->
               [type |-> "date", default |-> PyNone, api_name |-> "dfslcp_dat_cadastro"]
          [] f = "tipo_classificacao" ->
               [type |-> "str", default |-> PyStr(<<"-">>),
                api_name |-> "dfslcp_dsc_tipo_classificao"]
          [] f = "valor_original" ->
               [type |-> "float", default |-> PyStr(<<"0", ".", "0">>),
                api_name |-> "dfslcp_vlr_original"]
          [] f = "valor_atual" ->
               [type |-> "Decimal", default |-> PyStr(<<"0", ".", "0">>),
                api_name |-> "ValorAtualFormatado"]
          [] f = "situacao" ->
               [type |-> "str", default |-> PyStr(<<"-">>),
                api_name |-> "dfslcp_dsc_sit_precatorio"]]

(***************************************************************************)
(* _get_base_field_name                                                    *)
(***************************************************************************)
\* A token of [A-Za-z_0-9]+
IsIdentToken(t) == t \notin {".", "(", ")", "\\", " "}

\* name.split(".")[-1]
AfterLastDot(name) ==
    LET last == CHOOSE i \in DOMAIN name :
                    name[i] = "." /\ \A j \in DOMAIN name : name[j] = "." => j <= i
    IN  SubSeq(name, last + 1, Len(name))

\* The length of the leading run of [A-Za-z_0-9] tokens
RECURSIVE IdentPrefixLen(_)
IdentPrefixLen(name) ==
    IF name # <<>> /\ IsIdentToken(name[1]) THEN 1 + IdentPrefixLen(Tail(name)) ELSE 0

\* re.match(r"^[A-Za-z_0-9]+\\(([^)]+)\\)$", name): in the raw string "\\" is
\* an escaped backslash and the parentheses after it open and close a group, so
\* the pattern is: identifier, a backslash, any run without ")", a backslash, end.
\* The result is group(1), the text after the first backslash, or <<>> for no match.
AggMatch(name) ==
    LET k == IdentPrefixLen(name)
    IN  IF /\ k >= 1
           /\ Len(name) >= k + 3
           /\ name[k + 1] = "\\"
           /\ name[Len(name)] = "\\"
           /\ \A i \in (k + 2)..Len(name) : name[i] # ")"
        THEN SubSeq(name, k + 2, Len(name))
        ELSE <<>>

_get_base_field_name(api_name_str) ==
    LET content_inside_agg == AggMatch(api_name_str)
    IN  IF content_inside_agg # <<>>
        THEN IF Contains(content_inside_agg, ".")
             THEN AfterLastDot(content_inside_agg)
             ELSE content_inside_agg
        ELSE IF Contains(api_name_str, ".")
             THEN AfterLastDot(api_name_str)
             ELSE api_name_str

\* normalize_to_rows: api_name_to_csv_field_map.get(base_api_name); "" for no entry
MappedField(base_api_name) ==
    IF \E f \in FieldNames : base_api_name = <<field_mapping[f].api_name>>
    THEN CHOOSE f \in FieldNames : base_api_name = <<field_mapping[f].api_name>>
    ELSE ""

(***************************************************************************)
(* Numbers written as text.  float() is modelled on the plain decimal      *)
(* notation [sign] digits [. digits]: exponents, "inf", "nan" and "_" are  *)
(* outside the alphabet of the model, and so are numbers of more than 15   *)
(* significant digits, where a double no longer holds every digit.         *)
(***************************************************************************)
\* float(s): [ok, neg, ip, fp], the sign, the integer digits (no leading zero)
\* and the fraction digits (no trailing zero, <<>> for none) of the number
\* The position of the first "." of body, Len(body) + 1 when it has none
FirstDot(body) ==
    IF Contains(body, ".")
    THEN CHOOSE i \in DOMAIN body :
            body[i] = "." /\ \A j \in DOMAIN body : body[j] = "." => i <= j
    ELSE Len(body) + 1

\* The fraction digits of a float: a fraction of zero is no fraction
FractionDigits(z) == IF z = <<"0">> THEN <<>> ELSE z

\* float() of a sign, integer digits and fraction digits
FloatOfParts(neg, ip, fp) ==
    IF AllDigits(ip) /\ AllDigits(fp) /\ (ip # <<>> \/ fp # <<>>)
    THEN [ok  |-> TRUE,
          neg |-> neg,
          ip  |-> IF ip # <<>> THEN StripLeadingZeros(ip) ELSE <<"0">>,
          fp  |-> IF fp = <<>> THEN <<>> ELSE FractionDigits(StripTrailingZeros(fp))]
    ELSE [ok |-> FALSE, neg |-> neg, ip |-> <<"0">>, fp |-> <<>>]

\* float() of a sign and an unsigned text with its first "." at dot
FloatOfBody(neg, body, dot) ==
    FloatOfParts(neg, SubSeq(body, 1, dot - 1), SubSeq(body, dot + 1, Len(body)))

\* float() of a stripped text
FloatOfText(t) ==
    IF t # <<>> /\ t[1] \in {"-", "+"}
    THEN FloatOfBody(t[1] = "-", Tail(t), FirstDot(Tail(t)))
    ELSE FloatOfBody(FALSE, t, FirstDot(t))

ParseFloat(s) == FloatOfText(Strip(s))

\* str(int(x)) of a parsed float: truncation toward zero
IntStrOfFloat(x) ==
    IF x.ip = <<"0">> THEN <<"0">> ELSE (IF x.neg THEN <<"-">> ELSE <<>>) \o x.ip

\* str(x) of a parsed float
FloatStr(x) ==
    (IF x.neg THEN <<"-">> ELSE <<>>) \o x.ip \o <<".">>
        \o (IF x.fp = <<>> THEN <<"0">> ELSE x.fp)

\* Digit strings without leading zeros, compared as numbers: -1, 0 or 1
RECURSIVE CmpSameLen(_, _)
CmpSameLen(a, b) ==
    IF a = <<>> THEN 0
    ELSE IF DigitVal(a[1]) < DigitVal(b[1]) THEN -1
    ELSE IF DigitVal(a[1]) > DigitVal(b[1]) THEN 1
    ELSE CmpSameLen(Tail(a), Tail(b))

CmpDigits(a, b) ==
    IF Len(a) < Len(b) THEN -1 ELSE IF Len(a) > Len(b) THEN 1 ELSE CmpSameLen(a, b)

\* x > k and x < k for a parsed float x and a whole number k given by its digits
FloatGt(x, k) ==
    /\ ~x.neg
    /\ \/ CmpDigits(x.ip, k) = 1
       \/ CmpDigits(x.ip, k) = 0 /\ x.fp # <<>>

FloatLt(x, k) ==
    \/ x.neg /\ (x.ip # <<"0">> \/ x.fp # <<>> \/ k # <<"0">>)
    \/ ~x.neg /\ CmpDigits(x.ip, k) = -1

(***************************************************************************)
(* Dates written as text (datetime.fromtimestamp, timedelta, strftime)     *)
(***************************************************************************)
\* The proleptic Gregorian date of a day count from 1970-01-01
CivilFromDays(z0) ==
    LET z   == z0 + 719468
        era == z \div 146097
        doe == z - era * 146097
        yoe == (doe - doe \div 1460 + doe \div 36524 - doe \div 146096) \div 365
        doy == doe - (365 * yoe + yoe \div 4 - yoe \div 100)
        mp  == (5 * doy + 2) \div 153
        d   == doy - (153 * mp + 2) \div 5 + 1
        m   == IF mp < 10 THEN mp + 3 ELSE mp - 9
        y   == yoe + era * 400 + (IF m <= 2 THEN 1 ELSE 0)
    IN  [y |-> y, m |-> m, d |-> d]

Pad(n, width) == LET ds == NatToDigits(n) IN Zeros(width - Len(ds)) \o ds

DateStr(c) == Pad(c.y, 4) \o <<"-">> \o Pad(c.m, 2) \o <<"-">> \o Pad(c.d, 2)

TimeStr(secs) ==
    Pad(secs \div 3600, 2) \o <<":">> \o Pad((secs % 3600) \div 60, 2)
        \o <<":">> \o Pad(secs % 60, 2)

\* Long division of a digit string by 86400000 (the milliseconds of a day):
\* <<quotient, remainder>>; every intermediate value stays below 2^31
RECURSIVE DivModMsPerDay(_, _, _)
DivModMsPerDay(ds, q, r) ==
    IF ds = <<>> THEN <<q, r>>
    ELSE LET cur == r * 10 + DigitVal(ds[1])
         IN  DivModMsPerDay(Tail(ds), q * 10 + cur \div 86400000, cur % 86400000)

\* The first three fraction digits as a number of thousandths
Thousandths(fp) ==
    LET p == SubSeq(fp \o <<"0", "0", "0">>, 1, 3) IN DigitsToNat(p)

\* str(datetime.fromtimestamp(ts / 1000.0)), the process running in UTC;
\* "" for a year that datetime cannot hold (ValueError, caught at line 216)
EpochMsStr(x) ==
    LET qr    == DivModMsPerDay(x.ip, 0, 0)
        c     == CivilFromDays(qr[1])
        secs  == qr[2] \div 1000
        micro == (qr[2] % 1000) * 1000 + Thousandths(x.fp)
    IN  IF c.y > 9999 THEN <<>>
        ELSE DateStr(c) \o <<" ">> \o TimeStr(secs)
                \o (IF micro = 0 THEN <<>> ELSE <<".">> \o Pad(micro, 6))

\* Lines 190-202: the spreadsheet serial date of 1 < ts < 80000, whose fraction
\* has at most four digits (the seconds of the day are then exact)
ExcelSerialStr(x) ==
    LET delta_days == DigitsToNat(x.ip)
        k          == Len(x.fp)
        scale      == CASE k = 0 -> 1 [] k = 1 -> 10 [] k = 2 -> 100
                        [] k = 3 -> 1000 [] OTHER -> 10000
        num        == DigitsToNat(IF k <= 4 THEN x.fp ELSE SubSeq(x.fp, 1, 4)) * 86400
        secs       == num \div scale
        micro      == num % scale
        c          == CivilFromDays(delta_days - 25569)
    IN  IF secs = 0 /\ micro = 0 THEN DateStr(c)
        ELSE DateStr(c) \o <<" ">> \o TimeStr(secs)

(***************************************************************************)
(* _decode_utf8 and _format_value                                          *)
(***************************************************************************)
\* .decode("unicode-escape") on the escapes of the model's alphabet: \t, \n
\* and \\ are replaced, a backslash before another letter stays as it is
\* (numeric escapes are outside the alphabet)
RECURSIVE UnicodeEscape(_)
UnicodeEscape(s) ==
    IF s = <<>> THEN <<>>
    ELSE IF s[1] = "\\" /\ Len(s) >= 2
         THEN (CASE s[2] = "t" -> <<"\t">>
                 [] s[2] = "n" -> <<"\n">>
                 [] s[2] = "\\" -> <<"\\">>
                 [] OTHER -> <<s[1], s[2]>>) \o UnicodeEscape(SubSeq(s, 3, Len(s)))
         ELSE <<s[1]>> \o UnicodeEscape(Tail(s))

\* A backslash that ends the string makes the decoding raise UnicodeDecodeError
RECURSIVE EndsInLoneBackslash(_)
EndsInLoneBackslash(s) ==
    IF s = <<>> THEN FALSE
    ELSE IF s[1] = "\\"
         THEN Len(s) = 1 \/ EndsInLoneBackslash(SubSeq(s, 3, Len(s)))
         ELSE EndsInLoneBackslash(Tail(s))

\* _decode_utf8 of a str (every caller passes str(value))
_decode_utf8(value) ==
    IF EndsInLoneBackslash(value) THEN value ELSE UnicodeEscape(value)

NumericTypes == {"int", "float", "Decimal"}

\* f"{value:020.0f}" of an int
ZeroPad20(value_str) ==
    IF value_str[1] = "-"
    THEN <<"-">> \o Zeros(20 - Len(value_str)) \o Tail(value_str)
    ELSE Zeros(20 - Len(value_str)) \o value_str

\* Lines 120-127: the text handed to float()
NumericText(value_str) ==
    LET temp_value == Strip(RemoveCurrency(value_str))
    IN  IF Contains(temp_value, ",") /\ Contains(temp_value, ".")
        THEN IF RFind(temp_value, ".") < RFind(temp_value, ",")
             THEN ReplaceChar(RemoveChar(temp_value, "."), ",", ".")
             ELSE temp_value
        ELSE IF Contains(temp_value, ",")
             THEN ReplaceChar(temp_value, ",", ".")
             ELSE temp_value

\* Lines 129-139: the text of val_float; "0" when float() raised ValueError
FormatFloat(val_float, field_type) ==
    IF ~val_float.ok THEN <<"0">>
    ELSE IF field_type = "int" THEN IntStrOfFloat(val_float)
    ELSE FloatStr(val_float)

\* Lines 120-139
FormatNumeric(value_str, field_type) ==
    FormatFloat(ParseFloat(NumericText(value_str)), field_type)

\* str(datetime.fromtimestamp(ts)) of line 185, the process running in UTC
EpochSecStr(x) ==
    LET n == DigitsToNat(x.ip)
    IN  DateStr(CivilFromDays(n \div 86400)) \o <<" ">> \o TimeStr(n % 86400)

\* Lines 170-216: the ranges of ts = float(value_str); "" when float() raised
FormatTimestamp(ts) ==
    IF ~ts.ok THEN <<>>
    ELSE IF /\ FloatGt(ts, <<"1","0","0","0","0","0","0","0","0","0","0","0">>)
            /\ FloatLt(ts, <<"3","0","0","0","0","0","0","0","0","0","0","0","0","0","0">>)
         THEN EpochMsStr(ts)
    ELSE IF /\ FloatGt(ts, <<"1","0","0","0","0","0","0","0","0","0">>)
            /\ FloatLt(ts, <<"3","0","0","0","0","0","0","0","0">>)
         THEN EpochSecStr(ts)
    ELSE IF FloatGt(ts, <<"1">>) /\ FloatLt(ts, <<"8","0","0","0","0">>)
         THEN ExcelSerialStr(ts)
    ELSE <<>>

\* Lines 141-222.  A text that holds "datetime" gives "": the pattern of line
\* 146, r"datetime\\s*\\(([^)]+)\\)", asks for backslashes around the tuple, and
\* its group(1) ends with that backslash, so int() of the last component raises
\* ValueError (line 162); without a match float() of the text raises ValueError
\* (line 216).
FormatDate(value_str) ==
    IF HasSubstring(Lower(value_str), <<"d", "a", "t", "e", "t", "i", "m", "e">>)
    THEN <<>>
    ELSE FormatTimestamp(ParseFloat(value_str))

\* _format_value(value, field_type); value is a JSON value, the result a str
_format_value(value, field_type) ==
    LET value_str == value.s
    IN  IF \/ value.ty = "none"
           \/ Strip(value_str) = <<>>
           \/ Lower(value_str) = <<"n", "o", "n", "e">>
        THEN CASE field_type = "date" -> <<>>
               [] field_type \in NumericTypes -> <<"0">>
               [] OTHER -> <<"-">>
        ELSE CASE field_type = "processo" ->
                    IF value.ty = "int" THEN ZeroPad20(value_str) ELSE Strip(value_str)
               [] field_type \in NumericTypes -> FormatNumeric(value_str, field_type)
               [] field_type = "date" -> FormatDate(value_str)
               [] OTHER -> Strip(value_str)

(***************************************************************************)
(* models.py: Precatorio.  Every value normalize_to_rows hands to the      *)
(* model is a str (a result of _format_value), so the validators are       *)
(* modelled on str inputs.                                                 *)
(***************************************************************************)
\* datetime.now().year, read by validate_ano_orcamento
CurrentYear == 2025

\* int(v) of pydantic for the int fields: the text of an integer
IsIntText(v) ==
    LET body == IF v # <<>> /\ v[1] \in {"-", "+"} THEN Tail(v) ELSE v
    IN  body # <<>> /\ AllDigits(body)

\* ordem: int = Field(..., ge=0)
OrdemValid(v) == IsIntText(Strip(v)) /\ Strip(v)[1] # "-"

\* clean_processo, line 56: the characters that are kept
RECURSIVE KeepProcessoChars(_)
KeepProcessoChars(v) ==
    IF v = <<>> THEN <<>>
    ELSE IF IsAlnum(v[1]) \/ v[1] = "-" \/ v[1] = "."
         THEN <<v[1]>> \o KeepProcessoChars(Tail(v))
         ELSE KeepProcessoChars(Tail(v))

\* clean_processo raises ValueError (lines 51-54 and 57-58)
ProcessoValid(v) == v # <<>> /\ Strip(KeepProcessoChars(v)) # <<>>

clean_processo(v) == Strip(KeepProcessoChars(v))

clean_optional_strings(v) ==
    IF Strip(v) = <<>> \/ v = <<"-">> THEN <<"-">> ELSE Strip(v)

NoDate == [isnone |-> TRUE, y |-> 0, m |-> 0, d |-> 0, secs |-> 0, micro |-> 0]

\* datetime.fromisoformat on the shapes _format_value writes:
\* YYYY-MM-DD, YYYY-MM-DD HH:MM:SS and YYYY-MM-DD HH:MM:SS.ffffff
IsIsoDate(v) ==
    /\ Len(v) \in {10, 19, 26}
    /\ \A i \in {1, 2, 3, 4, 6, 7, 9, 10} : v[i] \in Digits
    /\ v[5] = "-" /\ v[8] = "-"
    /\ (Len(v) >= 19 =>
          /\ \A i \in {12, 13, 15, 16, 18, 19} : v[i] \in Digits
          /\ v[14] = ":" /\ v[17] = ":")
    /\ (Len(v) = 26 => v[20] = "." /\ AllDigits(SubSeq(v, 21, 26)))

ParseIsoDate(v) ==
    [isnone |-> FALSE,
     y |-> DigitsToNat(SubSeq(v, 1, 4)),
     m |-> DigitsToNat(SubSeq(v, 6, 7)),
     d |-> DigitsToNat(SubSeq(v, 9, 10)),
     secs |-> IF Len(v) >= 19
              THEN 3600 * DigitsToNat(SubSeq(v, 12, 13))
                     + 60 * DigitsToNat(SubSeq(v, 15, 16)) + DigitsToNat(SubSeq(v, 18, 19))
              ELSE 0,
     micro |-> IF Len(v) = 26 THEN DigitsToNat(SubSeq(v, 21, 26)) ELSE 0]

\* s.find(sub): the first index (from 0) of sub in s, -1 when absent
Find(s, sub) ==
    LET at == {i \in 1..(Len(s) - Len(sub) + 1) : SubSeq(s, i, i + Len(sub) - 1) = sub}
    IN  IF at = {} THEN -1 ELSE (CHOOSE i \in at : \A j \in at : i <= j) - 1

\* s.split(",")
RECURSIVE SplitComma(_)
SplitComma(s) ==
    IF ~Contains(s, ",") THEN <<s>>
    ELSE LET k == Find(s, <<",">>) + 1
         IN  <<SubSeq(s, 1, k - 1)>> \o SplitComma(SubSeq(s, k + 1, Len(s)))

\* The days of month m of year y
DaysInMonth(y, m) ==
    IF m = 2 THEN (IF (y % 4 = 0 /\ y % 100 # 0) \/ y % 400 = 0 THEN 29 ELSE 28)
    ELSE IF m \in {4, 6, 9, 11} THEN 30 ELSE 31

\* datetime(*parts) of lines 84-89, parts_str being the text between
\* "datetime(" and the last ")"; None when int() or datetime() raises
\* ValueError or TypeError (lines 90-92)
DatetimeOfTuple(v) ==
    LET parts_str == SubSeq(v, Find(Lower(v), <<"d", "a", "t", "e", "t", "i", "m", "e", "(">>) + 10,
                            RFind(v, ")"))
        texts == SplitComma(parts_str)
        n     == Len(texts)
        part(i) == IF i <= n THEN DigitsToNat(StripLeadingZeros(Strip(texts[i]))) ELSE 0
    IN  IF /\ n \in 3..7
           /\ \A i \in 1..n : Strip(texts[i]) # <<>> /\ AllDigits(Strip(texts[i]))
                                /\ Len(StripLeadingZeros(Strip(texts[i]))) <= 6
           /\ part(1) \in 1..9999
           /\ part(2) \in 1..12
           /\ part(3) \in 1..DaysInMonth(part(1), part(2))
           /\ part(4) < 24 /\ part(5) < 60 /\ part(6) < 60
        THEN [isnone |-> FALSE, y |-> part(1), m |-> part(2), d |-> part(3),
              secs |-> 3600 * part(4) + 60 * part(5) + part(6), micro |-> part(7)]
        ELSE NoDate

\* clean_data_cadastro of a str: the tuple form (lines 83-92), then
\* datetime.fromisoformat (lines 93-96); every other text _format_value
\* returns for a date gives None
clean_data_cadastro(v) ==
    IF Strip(v) = <<"-">> \/ Strip(v) = <<>> THEN NoDate
    ELSE IF HasSubstring(Lower(v), <<"d", "a", "t", "e", "t", "i", "m", "e">>)
         THEN DatetimeOfTuple(v)
    ELSE IF IsIsoDate(v) THEN ParseIsoDate(v)
    ELSE NoDate

\* validate_ano_orcamento
validate_ano_orcamento(v) ==
    IF Strip(v) = <<"-">> \/ Strip(v) = <<>> THEN CurrentYear
    ELSE IF ~AllDigits(v) THEN CurrentYear
    ELSE LET digits == StripLeadingZeros(v)
             v_int  == IF Len(digits) <= 8 THEN DigitsToNat(digits) ELSE 0
             year   == CivilFromDays(DivModMsPerDay(digits, 0, 0)[1]).y
         IN  IF Len(digits) > 8
             THEN IF Len(digits) <= 15 /\ year <= 9999 THEN year ELSE CurrentYear
             ELSE IF 1900 <= v_int /\ v_int <= CurrentYear + 5 THEN v_int
             ELSE CurrentYear

\* clean_decimal_fields, lines 171-192: the text handed to Decimal()
DecimalText(v) ==
    LET cleaned_v  == Strip(RemoveCurrency(v))
        num_dots   == Count(cleaned_v, ".")
        num_commas == Count(cleaned_v, ",")
        last       == IF num_dots > 0 THEN AfterLastDot(cleaned_v) ELSE cleaned_v
    IN  IF num_commas = 1 /\ num_dots > 1
        THEN ReplaceChar(RemoveChar(cleaned_v, "."), ",", ".")
        ELSE IF num_commas > 1 /\ num_dots = 1 THEN RemoveChar(cleaned_v, ",")
        ELSE IF num_commas = 1 /\ num_dots = 0 THEN ReplaceChar(cleaned_v, ",", ".")
        ELSE IF num_dots = 1 /\ num_commas = 0 /\ Len(last) = 3
             THEN IF ~(\E i \in 1..2 : last[i] \in Digits)
                  THEN cleaned_v
                  ELSE RemoveChar(cleaned_v, ".")
        ELSE cleaned_v

\* clean_decimal_fields: the Decimal, written as Decimal writes it
clean_decimal_fields(v) ==
    IF Strip(v) = <<"-">> \/ Strip(v) = <<>> THEN <<"0", ".", "0">>
    ELSE LET t == DecimalText(v)
         IN  IF ParseFloat(t).ok THEN Strip(t) ELSE <<"0", ".", "0">>

\* Precatorio(**pydantic_input_row) raises ValidationError
PrecatorioValid(row) == OrdemValid(row.ordem) /\ ProcessoValid(row.processo)

\* precatorio_obj.dict(), with ordem replaced as lines 1056-1057 do
DumpedRow(row, ordem) ==
    [ordem              |-> ordem,
     processo           |-> clean_processo(row.processo),
     comarca            |-> clean_optional_strings(row.comarca),
     ano_orcamento      |-> validate_ano_orcamento(row.ano_orcamento),
     natureza           |-> clean_optional_strings(row.natureza),
     data_cadastro      |-> clean_data_cadastro(row.data_cadastro),
     tipo_classificacao |-> clean_optional_strings(row.tipo_classificacao),
     valor_original     |-> clean_decimal_fields(row.valor_original),
     valor_atual        |-> clean_decimal_fields(row.valor_atual),
     situacao           |-> clean_optional_strings(row.situacao)]

(***************************************************************************)
(* The response of the query endpoint.                                     *)
(*   page: [envelope, Select, ValueDicts, DM0, RT]                         *)
(*     envelope   "ok", or the part of results[0].result.data.dsr.DS[0].PH *)
(*                that is missing                                          *)
(*     Select     descriptor.Select: the wire names of the columns         *)
(*     ValueDicts DS[0].ValueDicts: a sequence of [name, vals]             *)
(*     DM0        PH[0].DM0: the rows [C, S, R]; S is <<>> when the row     *)
(*                has no "S", R is NoR when it has no "R"                  *)
(*     RT         DS[0].RT, NoToken when absent or empty                   *)
(***************************************************************************)
NoToken == "none"
NoR == -1
NoDN == ""

\* value_dicts.get(dict_name): [found, vals]
VDLookup(value_dicts, dict_name) ==
    IF \E k \in DOMAIN value_dicts : value_dicts[k].name = dict_name
    THEN [found |-> TRUE,
          vals  |-> value_dicts[CHOOSE k \in DOMAIN value_dicts :
                                    value_dicts[k].name = dict_name].vals]
    ELSE [found |-> FALSE, vals |-> <<>>]

\* int(raw_value_for_field), line 859: [ok, n]; ValueError for a text that is
\* no integer, TypeError for None
PyIntOf(raw) ==
    CASE raw.ty = "int" -> [ok |-> TRUE, n |-> raw.n]
      [] raw.ty = "str" ->
            LET t    == Strip(raw.s)
                neg  == t # <<>> /\ t[1] = "-"
                body == IF t # <<>> /\ t[1] \in {"-", "+"} THEN Tail(t) ELSE t
            IN  IF body # <<>> /\ AllDigits(body) /\ Len(body) <= 8
                THEN [ok |-> TRUE,
                      n  |-> IF neg THEN 0 - DigitsToNat(body) ELSE DigitsToNat(body)]
                ELSE [ok |-> FALSE, n |-> 0]
      [] OTHER -> [ok |-> FALSE, n |-> 0]

\* Lines 794-801: the row of defaults every wire row starts from
DefaultRow ==
    [f \in FieldNames |-> _format_value(field_mapping[f].default, field_mapping[f].type)]

\* Lines 833-849: the canonical field of column col_idx, "" when the column has
\* no descriptor or its name maps to no field
ColumnField(Select, col_idx) ==
    IF col_idx > Len(Select) THEN ""
    ELSE MappedField(_get_base_field_name(Select[col_idx]))

\* ResolveBase for a decoder that never looks a value up in a dictionary
ResolveBaseLiteral(schema_item, raw_value_for_field, value_dicts) ==
    [resolved |-> TRUE, val |-> raw_value_for_field]

\* Lines 853-893: the base row's value of one mapped column; [resolved, val]
ResolveBase(schema_item, raw_value_for_field, value_dicts) ==
    IF schema_item.DN # NoDN
    THEN LET actual_idx == PyIntOf(raw_value_for_field)
             vd_list    == VDLookup(value_dicts, schema_item.DN)
         IN  IF /\ actual_idx.ok
                /\ vd_list.found
                /\ 0 <= actual_idx.n
                /\ actual_idx.n < Len(vd_list.vals)
             THEN [resolved |-> TRUE, val |-> vd_list.vals[actual_idx.n + 1]]
             ELSE [resolved |-> FALSE, val |-> PyNone]
    ELSE [resolved |-> TRUE, val |-> raw_value_for_field]

\* Lines 885-893: what a resolved base value becomes in pydantic_input_row
CoerceBase(val, target_field_type) ==
    _format_value(IF val.ty = "none" THEN PyNone ELSE PyStr(_decode_utf8(val.s)),
                  target_field_type)

\* Lines 824-893: the columns col_idx.. of the base row
RECURSIVE DecodeBaseColumns(_, _, _, _, _, _)
DecodeBaseColumns(col_idx, s_schema, current_c_values, Select, value_dicts, row) ==
    IF col_idx > Len(s_schema) THEN row
    ELSE LET f   == ColumnField(Select, col_idx)
             r   == ResolveBase(s_schema[col_idx], current_c_values[col_idx], value_dicts)
             new == IF f # "" /\ r.resolved
                    THEN [row EXCEPT ![f] = CoerceBase(r.val, field_mapping[f].type)]
                    ELSE row
         IN  DecodeBaseColumns(col_idx + 1, s_schema, current_c_values, Select,
                               value_dicts, new)

\* (rulifier_r >> col_idx) & 1, col_idx counted from 1 here
Bit(rulifier_r, col_idx) == (rulifier_r \div (2 ^ (col_idx - 1))) % 2

\* Lines 978-1045: the new (bit 0) value of one mapped column of a delta row
ResolveDelta(schema_item, raw_value_from_c, value_dicts, target_field_type, inherited) ==
    CASE raw_value_from_c.ty = "str" ->
            _format_value(raw_value_from_c, target_field_type)
      [] raw_value_from_c.ty = "int" ->
            IF schema_item.DN # NoDN
            THEN LET vd == VDLookup(value_dicts, schema_item.DN)
                 IN  IF /\ vd.found
                        /\ 0 <= raw_value_from_c.n
                        /\ raw_value_from_c.n < Len(vd.vals)
                     THEN _format_value(vd.vals[raw_value_from_c.n + 1], target_field_type)
                     ELSE inherited
            ELSE _format_value(PyStr(raw_value_from_c.s), target_field_type)
      [] OTHER -> inherited

\* Lines 930-1046: the columns col_idx.. of a delta row; c_delta_idx counts the
\* sparse values consumed so far (from 0)
RECURSIVE DecodeDeltaColumns(_, _, _, _, _, _, _, _, _)
DecodeDeltaColumns(col_idx, c_delta_idx, s_schema, rulifier_r, current_c_values_delta, Select, value_dicts, last_processed_pydantic_row, row) ==
    IF col_idx > Len(s_schema) THEN row
    ELSE LET f == ColumnField(Select, col_idx)
         IN  IF f = "" \/ Bit(rulifier_r, col_idx) = 1
             THEN DecodeDeltaColumns(col_idx + 1, c_delta_idx, s_schema, rulifier_r,
                                     current_c_values_delta, Select, value_dicts,
                                     last_processed_pydantic_row, row)
             ELSE IF c_delta_idx >= Len(current_c_values_delta)
             THEN DecodeDeltaColumns(col_idx + 1, c_delta_idx, s_schema, rulifier_r,
                                     current_c_values_delta, Select, value_dicts,
                                     last_processed_pydantic_row,
                                     [row EXCEPT ![f] = last_processed_pydantic_row[f]])
             ELSE DecodeDeltaColumns(col_idx + 1, c_delta_idx + 1, s_schema, rulifier_r,
                                     current_c_values_delta, Select, value_dicts,
                                     last_processed_pydantic_row,
                                     [row EXCEPT ![f] =
                                         ResolveDelta(s_schema[col_idx],
                                                      current_c_values_delta[c_delta_idx + 1],
                                                      value_dicts, field_mapping[f].type,
                                                      last_processed_pydantic_row[f])])

(***************************************************************************)
(* normalize_to_rows.  The state of the row loop of one page is            *)
(*   [s_schema, have_last, last, order, rows, decoded]                     *)
(* s_schema and last are lines 788-789 (have_last is FALSE for the empty   *)
(* dict), order is current_order_in_normalized_list, rows is               *)
(* normalized_rows, and decoded records, for every wire row the loop went  *)
(* through, its pydantic_input_row and whether a record was appended.      *)
(***************************************************************************)
\* EmitRow with an ordem that counts the records of the page, not of the crawl
EmitRowPerPage(st, row) ==
    LET valid == PrecatorioValid(row)
    IN  [st EXCEPT
            !.have_last = TRUE,
            !.last      = row,
            !.order     = IF valid THEN st.order + 1 ELSE st.order,
            !.rows      = IF valid THEN Append(st.rows, DumpedRow(row, Len(st.rows) + 1))
                          ELSE st.rows,
            !.decoded   = Append(st.decoded,
                                 [skipped |-> FALSE, emitted |-> valid, row |-> row])]

\* EmitRow for a decoder whose previous row is the last row that gave a record
EmitRowKeepsLastValid(st, row) ==
    LET valid == PrecatorioValid(row)
    IN  [st EXCEPT
            !.have_last = TRUE,
            !.last      = IF valid THEN row ELSE st.last,
            !.order     = IF valid THEN st.order + 1 ELSE st.order,
            !.rows      = IF valid THEN Append(st.rows, DumpedRow(row, st.order + 1))
                          ELSE st.rows,
            !.decoded   = Append(st.decoded,
                                 [skipped |-> FALSE, emitted |-> valid, row |-> row])]

\* Lines 1052-1091: validate the row, and append its record when it is valid
EmitRow(st, row) ==
    LET valid == PrecatorioValid(row)
    IN  [st EXCEPT
            !.have_last = TRUE,
            !.last      = row,
            !.order     = IF valid THEN st.order + 1 ELSE st.order,
            !.rows      = IF valid THEN Append(st.rows, DumpedRow(row, st.order + 1))
                          ELSE st.rows,
            !.decoded   = Append(st.decoded,
                                 [skipped |-> FALSE, emitted |-> valid, row |-> row])]

\* SkipRow for a decoder that goes on from the defaults after a row it left
SkipRowKeepsDefaults(st) ==
    [st EXCEPT !.have_last = TRUE,
               !.last      = DefaultRow,
               !.decoded   = Append(st.decoded,
                                    [skipped |-> TRUE, emitted |-> FALSE, row |-> DefaultRow])]

\* A row left by "continue" before it is decoded (lines 822 and 909)
SkipRow(st) ==
    [st EXCEPT !.decoded = Append(st.decoded,
                                  [skipped |-> TRUE, emitted |-> FALSE, row |-> DefaultRow])]

\* Lines 791-1091: the rows i.. of the page
RECURSIVE RowLoop(_, _, _, _, _)
RowLoop(i, data_rows, Select, value_dicts, st) ==
    IF i > Len(data_rows) THEN st
    ELSE LET raw_row_data_container == data_rows[i]
             current_c_values       == raw_row_data_container.C
         IN  IF i = 1
             THEN IF raw_row_data_container.S = <<>>
                  THEN st
                  ELSE IF Len(current_c_values) # Len(raw_row_data_container.S)
                  THEN RowLoop(i + 1, data_rows, Select, value_dicts,
                               SkipRow([st EXCEPT !.s_schema = raw_row_data_container.S,
                                                  !.have_last = FALSE]))
                  ELSE RowLoop(i + 1, data_rows, Select, value_dicts,
                               EmitRow([st EXCEPT !.s_schema = raw_row_data_container.S],
                                       DecodeBaseColumns(1, raw_row_data_container.S,
                                                         current_c_values, Select,
                                                         value_dicts, DefaultRow)))
             ELSE IF st.s_schema = <<>>
                  THEN st
                  ELSE IF ~st.have_last
                  THEN RowLoop(i + 1, data_rows, Select, value_dicts, SkipRow(st))
                  ELSE IF raw_row_data_container.R = NoR
                  THEN RowLoop(i + 1, data_rows, Select, value_dicts, EmitRow(st, st.last))
                  ELSE RowLoop(i + 1, data_rows, Select, value_dicts,
                               EmitRow(st,
                                       DecodeDeltaColumns(1, 0, st.s_schema,
                                                          raw_row_data_container.R,
                                                          current_c_values, Select,
                                                          value_dicts, st.last, st.last)))

EmptyRow == [C |-> <<>>, S |-> <<>>, R |-> NoR]

\* Lines 712-779: the pages that are left by "continue" before the row loop.
\* A dict that is no response (it has no "results") has no data (lines 713-718)
PageHasRows(resp_json) ==
    /\ "envelope" \in DOMAIN resp_json
    /\ resp_json.envelope = "ok"
    /\ resp_json.DM0 # <<EmptyRow>>
    /\ resp_json.Select # <<>>
    /\ resp_json.DM0 # <<>>

\* NormalizePage for a decoder whose schema and previous row outlive the page:
\* a first row without schema is decoded as a row after the last row of the
\* page before
NormalizePageKeepsState(resp_json, st) ==
    IF ~PageHasRows(resp_json) THEN st
    ELSE IF resp_json.DM0[1].S = <<>> /\ st.s_schema # <<>> /\ st.have_last
    THEN RowLoop(2, <<EmptyRow>> \o resp_json.DM0, resp_json.Select,
                 resp_json.ValueDicts, st)
    ELSE RowLoop(1, resp_json.DM0, resp_json.Select, resp_json.ValueDicts, st)

\* Lines 703-1099: one page of resp_json_pages, decoded from the state st
NormalizePage(resp_json, st) ==
    IF ~PageHasRows(resp_json) THEN st
    ELSE LET fresh == [st EXCEPT !.s_schema = <<>>, !.have_last = FALSE,
                                 !.last = DefaultRow]
         IN  RowLoop(1, resp_json.DM0, resp_json.Select, resp_json.ValueDicts, fresh)

RECURSIVE NormalizePages(_, _, _)
NormalizePages(resp_json_pages, k, st) ==
    IF k > Len(resp_json_pages) THEN st
    ELSE NormalizePages(resp_json_pages, k + 1, NormalizePage(resp_json_pages[k], st))

\* normalize_to_rows(resp_json_pages, starting_order_number): rows and order are
\* the pair it returns
normalize_to_rows(resp_json_pages, starting_order_number) ==
    NormalizePages(resp_json_pages, 1,
                   [s_schema |-> <<>>, have_last |-> FALSE, last |-> DefaultRow,
                    order |-> starting_order_number, rows |-> <<>>, decoded |-> <<>>])

(***************************************************************************)
(* The responses the model's server can give                               *)
(***************************************************************************)
Str_P1 == <<"P", "1">>
Str_P2 == <<"P", "2">>
Str_Punct == <<"/", "/">>

NameProcesso == <<"dfslcp_SAPRE_LISTA_CRONO_PRECATORIO", ".", "dfslcp_dsc_proc_precatorio">>
NameComarca == <<"dfslcp_SAPRE_LISTA_CRONO_PRECATORIO", ".", "dfslcp_dsc_comarca">>
NameOrdem == <<"dfslcp_SAPRE_LISTA_CRONO_PRECATORIO", ".", "dfslcp_num_ordem">>
\* config.py line 263: the name the request template gives the ordem column
NameSumOrdem ==
    <<"Sum", "(", "dfslcp_SAPRE_LISTA_CRONO_PRECATORIO", ".", "dfslcp_num_ordem", ")">>

\* A column name that field_mapping does not know
NameOther == <<"dfslcp_SAPRE_LISTA_CRONO_PRECATORIO", ".", "dfslcp_outra_coluna">>

\* The dictionary of section 8 of the specification
ValueDictsD0 == <<[name |-> "D0", vals |-> <<PyStr(<<"X">>), PyStr(<<"Y">>)>>]>>

\* A column of a page layout: its wire name, the values its base row may hold
\* and the dictionaries its schema entry may name
ColProcesso ==
    [name |-> NameProcesso, vals |-> {PyStr(Str_P1), PyStr(Str_Punct)}, dns |-> {NoDN}]
ColComarca ==
    [name |-> NameComarca,
     vals |-> {PyInt(0), PyInt(1), PyInt(7), PyStr(<<"1">>), PyStr(<<"X">>), PyNone},
     dns  |-> {NoDN, "D0"}]
ColOrdem == [name |-> NameOrdem, vals |-> {PyInt(3), PyInt(-5)}, dns |-> {NoDN}]
ColSumOrdem == [name |-> NameSumOrdem, vals |-> {PyInt(3)}, dns |-> {NoDN}]
ColOther == [name |-> NameOther, vals |-> {PyInt(3)}, dns |-> {NoDN}]

Layouts == {<<ColProcesso, ColComarca>>, <<ColSumOrdem, ColProcesso>>,
            <<ColOrdem, ColProcesso>>, <<ColOther, ColProcesso>>}

\* The sparse values of the delta rows
DeltaVals == {PyStr(Str_P2), PyInt(1), PyInt(7), PyStr(<<"1">>), PyNone}

\* The greatest number of delta rows of a page
MaxDeltaRows == 1

BaseRowsOf(layout) ==
    {[C |-> <<a, b>>, S |-> <<[DN |-> d1], [DN |-> d2]>>, R |-> NoR] :
        a \in layout[1].vals, b \in layout[2].vals,
        d1 \in layout[1].dns, d2 \in layout[2].dns}

DeltaRows ==
    {[C |-> <<>>, S |-> <<>>, R |-> NoR]}
      \cup {[C |-> c, S |-> <<>>, R |-> r] :
              c \in {<<>>} \cup {<<a>> : a \in DeltaVals}
                      \cup {<<a, b>> : a \in DeltaVals, b \in {PyStr(Str_P2), PyInt(1)}},
              r \in 0..3}

RECURSIVE DeltaSeqs(_)
DeltaSeqs(k) ==
    IF k = 0 THEN {<<>>}
    ELSE LET shorter == DeltaSeqs(k - 1)
         IN  shorter \cup {Append(ds, d) : ds \in {x \in shorter : Len(x) = k - 1},
                                           d \in DeltaRows}

MakePage(envelope, Select, DM0, RT) ==
    [envelope |-> envelope, Select |-> Select, ValueDicts |-> ValueDictsD0,
     DM0 |-> DM0, RT |-> RT]

\* Pages that pass the structural checks of normalize_to_rows
BasePages ==
    UNION {{MakePage("ok", <<layout[1].name, layout[2].name>>, <<base>>, NoToken) :
                base \in BaseRowsOf(layout)} : layout \in Layouts}

WellFormedPages ==
    {[page EXCEPT !.DM0 = page.DM0 \o deltas] :
        page \in BasePages, deltas \in DeltaSeqs(MaxDeltaRows)}

GoodBase == [C |-> <<PyStr(Str_P1), PyInt(0)>>, S |-> <<[DN |-> NoDN], [DN |-> "D0"]>>,
             R |-> NoR]
GoodDelta == [C |-> <<PyStr(Str_P2)>>, S |-> <<>>, R |-> 2]
SelectPC == <<NameProcesso, NameComarca>>

\* Pages that fail a structural check: a part of the envelope missing, no column
\* descriptors, no rows, a base row without schema, a base row whose number of
\* values differs from the length of its schema
MalformedPages ==
    {MakePage(e, SelectPC, <<GoodBase, GoodDelta>>, NoToken) :
        e \in {"no_data", "no_dsr", "no_DS", "no_PH", "no_DM0"}}
      \cup {MakePage("ok", <<>>, <<GoodBase, GoodDelta>>, NoToken),
            MakePage("ok", SelectPC, <<>>, NoToken),
            MakePage("ok", SelectPC, <<EmptyRow>>, NoToken),
            MakePage("ok", SelectPC, <<[GoodBase EXCEPT !.S = <<>>], GoodDelta>>, NoToken)}
      \cup {MakePage("ok", SelectPC, <<[GoodBase EXCEPT !.C = c]>> \o deltas, NoToken) :
              c \in {<<PyStr(Str_P1)>>, <<PyStr(Str_P1), PyInt(0), PyInt(1)>>},
              deltas \in {<<>>, <<GoodDelta>>}}

\* Pages whose number of column descriptors differs from the length of the
\* base row's schema: one descriptor fewer, one more
DescriptorMismatchPages ==
    {MakePage("ok", sel, <<GoodBase>> \o deltas, NoToken) :
        sel \in {<<NameProcesso>>, <<NameProcesso, NameComarca, NameOrdem>>},
        deltas \in {<<>>, <<GoodDelta>>}}

\* A page of three rows whose second row changes both columns and fails the
\* validation of the record model (its processo has no letter or digit), and
\* whose third row takes its second column from the row before
InvalidMiddlePages ==
    {MakePage("ok", SelectPC,
              <<GoodBase, [C |-> <<PyStr(Str_Punct), PyInt(1)>>, S |-> <<>>, R |-> 0],
                GoodDelta>>,
              NoToken)}

DecodePages ==
    WellFormedPages \cup MalformedPages \cup DescriptorMismatchPages \cup InvalidMiddlePages

StartOrders == {0, 2}

(***************************************************************************)
(* entity_mapping.py.  An accented letter is one character of the text,    *)
(* written here by an ASCII name ("A_acute" for the letter A with acute    *)
(* accent); "comb_..." are the combining marks of its NFKD decomposition.  *)
(***************************************************************************)
\* str.lower on the accented capital letters of the table
AccentLower ==
    [c \in {"A_acute", "A_tilde", "C_cedilla", "E_acute", "E_circ", "I_acute", "O_acute", "O_circ", "U_acute"} |->
        CASE c = "A_acute" -> "a_acute" [] c = "A_tilde" -> "a_tilde"
          [] c = "C_cedilla" -> "c_cedilla" [] c = "E_acute" -> "e_acute"
          [] c = "E_circ" -> "e_circ" [] c = "I_acute" -> "i_acute"
          [] c = "O_acute" -> "o_acute" [] c = "O_circ" -> "o_circ"
          [] c = "U_acute" -> "u_acute"]

\* unicodedata.normalize("NFKD", c) of the accented small letters
Decomposition ==
    [c \in {AccentLower[u] : u \in DOMAIN AccentLower} |->
        CASE c = "a_acute" -> <<"a", "comb_acute">>
          [] c = "a_tilde" -> <<"a", "comb_tilde">>
          [] c = "c_cedilla" -> <<"c", "comb_cedilla">>
          [] c = "e_acute" -> <<"e", "comb_acute">>
          [] c = "e_circ" -> <<"e", "comb_circ">>
          [] c = "i_acute" -> <<"i", "comb_acute">>
          [] c = "o_acute" -> <<"o", "comb_acute">>
          [] c = "o_circ" -> <<"o", "comb_circ">>
          [] c = "u_acute" -> <<"u", "comb_acute">>]

\* text.lower() (line 12)
SlugLower(text) ==
    [i \in DOMAIN text |->
        IF text[i] \in DOMAIN AccentLower THEN AccentLower[text[i]] ELSE LowerChar(text[i])]

\* unicodedata.normalize("NFKD", text) (line 13), the text taken by halves
RECURSIVE NFKD(_)
NFKD(text) ==
    IF Len(text) = 0 THEN <<>>
    ELSE IF Len(text) = 1
    THEN (IF text[1] \in DOMAIN Decomposition THEN Decomposition[text[1]] ELSE text)
    ELSE NFKD(SubSeq(text, 1, Len(text) \div 2))
           \o NFKD(SubSeq(text, Len(text) \div 2 + 1, Len(text)))

\* "".join([c for c in text if not unicodedata.combining(c)]) (line 14)
DropCombining(text) ==
    SelectSeq(text, LAMBDA c : c \notin {"comb_acute", "comb_tilde", "comb_cedilla", "comb_circ"})

\* re.sub(r"[^a-z0-9\s-]", "", text) (line 17)
KeepSlugChars(text) ==
    SelectSeq(text, LAMBDA c : c \in LowerLetters \cup Digits \/ IsSpace(c) \/ c = "-")

\* A character of [-\s]
IsSeparator(c) == c = "-" \/ IsSpace(c)

\* re.sub(r"[-\s]+", "-", text) (line 18): the last separator of every run
\* becomes "-" and the separators before it go ("" marks them)
CollapseSeparators(text) ==
    SelectSeq([i \in DOMAIN text |->
                  IF ~IsSeparator(text[i]) THEN text[i]
                  ELSE IF i < Len(text) /\ IsSeparator(text[i + 1]) THEN ""
                  ELSE "-"],
              LAMBDA c : c # "")

\* text[first..last] for the least and the greatest index of kept, <<>> for none
Between(text, kept) ==
    IF kept = {} THEN <<>>
    ELSE SubSeq(text, CHOOSE i \in kept : \A j \in kept : i <= j,
                      CHOOSE i \in kept : \A j \in kept : j <= i)

\* .strip("-") (line 18)
StripHyphens(text) == Between(text, {i \in DOMAIN text : text[i] # "-"})

\* slugify without the decomposition of the accented letters
slugifyWithoutNFKD(text) ==
    StripHyphens(CollapseSeparators(KeepSlugChars(DropCombining(SlugLower(text)))))

\* slugify, lines 7-20
slugify(text) ==
    StripHyphens(CollapseSeparators(KeepSlugChars(DropCombining(NFKD(SlugLower(text))))))

\* unslugify, lines 23-28: slug.replace("-", " ").upper(), for a slug of
\* small letters, digits and "-" as slugify gives
unslugify(slug) ==
    [i \in DOMAIN slug |->
        IF slug[i] = "-" THEN " "
        ELSE IF slug[i] \in LowerLetters
        THEN CHOOSE u \in DOMAIN UpperToLower : UpperToLower[u] = slug[i]
        ELSE slug[i]]

\* entity_mapping.py line 40
SlugEstadoDoCeara ==
    <<"e", "s", "t", "a", "d", "o", "-", "d", "o", "-", "c", "e", "a", "r", "a">>
NameEstadoDoCeara ==
    <<"E", "S", "T", "A", "D", "O", " ", "D", "O", " ", "C", "E", "A", "R", "A_acute">>

\* entity_mapping.py line 207
SlugMunicipioDeRedencao ==
    <<"m", "u", "n", "i", "c", "i", "p", "i", "o", "-", "d", "e", "-", "r", "e", "d",
      "e", "n", "c", "a", "o">>
NameMunicipioDeRedencao ==
    <<"M", "U", "N", "I", "C", "I_acute", "P", "I", "O", " ", "D", "E", " ", "R", "E",
      "D", "E", "N", "C_cedilla", "A_tilde", "O">>

\* ENTITY_MAPPING, lines 32-240: the entries of lines 40, 207, 55, 180, 142, 162,
\* 172, 204 and 45, which between them hold every accented letter, " - ", "/"
\* and "-" that occur in a name of the table
ENTITY_MAPPING ==
    (SlugEstadoDoCeara :> NameEstadoDoCeara)
      @@ (SlugMunicipioDeRedencao :> NameMunicipioDeRedencao)
      @@ (<<"m", "u", "n", "i", "c", "i", "p", "i", "o", "-", "d", "e", "-", "b", "o", "q",
          "u", "i", "r", "a", "-", "b", "a">>
          :> <<"M", "U", "N", "I", "C", "I", "P", "I", "O", " ", "D", "E", " ", "B", "O", "Q",
          "U", "I", "R", "A", " ", "-", " ", "B", "A">>)
      @@ (<<"m", "u", "n", "i", "c", "i", "p", "i", "o", "-", "d", "e", "-", "o", "r", "o",
          "s">>
          :> <<"M", "U", "N", "I", "C", "I_acute", "P", "I", "O", " ", "D", "E", " ", "O", "R",
          "O_acute", "S">>)
      @@ (<<"m", "u", "n", "i", "c", "i", "p", "i", "o", "-", "d", "e", "-", "i", "t", "a",
          "p", "a", "j", "e">>
          :> <<"M", "U", "N", "I", "C", "I_acute", "P", "I", "O", " ", "D", "E", " ", "I", "T",
          "A", "P", "A", "J", "E_acute">>)
      @@ (<<"m", "u", "n", "i", "c", "i", "p", "i", "o", "-", "d", "e", "-", "m", "a", "s",
          "s", "a", "p", "e">>
          :> <<"M", "U", "N", "I", "C", "I_acute", "P", "I", "O", " ", "D", "E", " ", "M", "A",
          "S", "S", "A", "P", "E_circ">>)
      @@ (<<"m", "u", "n", "i", "c", "i", "p", "i", "o", "-", "d", "e", "-", "m", "o", "r",
          "a", "u", "j", "o">>
          :> <<"M", "U", "N", "I", "C", "I_acute", "P", "I", "O", " ", "D", "E", " ", "M", "O",
          "R", "A", "U_acute", "J", "O">>)
      @@ (<<"m", "u", "n", "i", "c", "i", "p", "i", "o", "-", "d", "e", "-", "q", "u", "i",
          "x", "e", "l", "o">>
          :> <<"M", "U", "N", "I", "C", "I_acute", "P", "I", "O", " ", "D", "E", " ", "Q", "U",
          "I", "X", "E", "L", "O_circ">>)
      @@ (<<"f", "u", "n", "d", "o", "-", "m", "u", "n", "i", "c", "i", "p", "a", "l", "-",
          "d", "e", "-", "p", "r", "e", "v", "i", "d", "e", "n", "c", "i", "a", "-", "s",
          "o", "c", "i", "a", "l", "-", "d", "o", "s", "-", "s", "e", "r", "v", "i", "d",
          "o", "r", "e", "s", "-", "d", "e", "-", "j", "u", "a", "z", "e", "i", "r", "o",
          "-", "n", "o", "r", "t", "e", "c", "e", "-", "p", "r", "e", "v", "i", "j", "u",
          "n", "o">>
          :> <<"F", "U", "N", "D", "O", " ", "M", "U", "N", "I", "C", "I", "P", "A", "L", " ",
          "D", "E", " ", "P", "R", "E", "V", "I", "D", "E", "N", "C", "I", "A", " ", "S",
          "O", "C", "I", "A", "L", " ", "D", "O", "S", " ", "S", "E", "R", "V", "I", "D",
          "O", "R", "E", "S", " ", "D", "E", " ", "J", "U", "A", "Z", "E", "I", "R", "O",
          " ", "N", "O", "R", "T", "E", "/", "C", "E", "-", "P", "R", "E", "V", "I", "J",
          "U", "N", "O">>)

\* get_api_entity_name, lines 267-275, for the normalized slug
NameOfNormalized(normalized_slug) ==
    IF normalized_slug \in DOMAIN ENTITY_MAPPING
    THEN ENTITY_MAPPING[normalized_slug]
    ELSE unslugify(normalized_slug)

\* get_api_entity_name, lines 258-275
get_api_entity_name(slug) == NameOfNormalized(slugify(slug))

\* REVERSE_ENTITY_MAPPING, line 242: {v: slugify(v) for k, v in ENTITY_MAPPING.items()}
REVERSE_ENTITY_MAPPING ==
    [v \in {ENTITY_MAPPING[k] : k \in DOMAIN ENTITY_MAPPING} |-> slugify(v)]

\* d[key] = value on a dict d
DictSet(d, key, value) ==
    [k \in DOMAIN d \cup {key} |-> IF k = key THEN value ELSE d[k]]

(***************************************************************************)
(* The request template and get_precatorios_payload.  Of PAYLOAD_STRUCTURE *)
(* the model keeps the three parts that get_precatorios_payload writes:    *)
(* the "Where" and "OrderBy" lists of the query and the "Window" dict of   *)
(* the binding.  A filter is [kind, Property, Value]: "In" or "Comparison",*)
(* the column it tests and the literal it tests it against.                *)
(***************************************************************************)
\* entity_mapping.py line 114
NameMunicipioDeFortaleza ==
    <<"M", "U", "N", "I", "C", "I_acute", "P", "I", "O", " ", "D", "E", " ", "F", "O",
      "R", "T", "A", "L", "E", "Z", "A">>

\* crawler.py line 57
PAGINATION_ORDER_BY_COLUMNS == <<"dfslcp_num_ordem">>

\* config.py line 24: CrawlerConfig.batch_size when BATCH_SIZE is not set
batch_size == 500

\* Lines 404-407
entity_column_names == {"dfslcp_nom_entidade_devedora", "dfslcp_dsc_entidade"}

\* Lines 449-465: the "In" filter on the entity, its literal f"'{api_entity_name}'"
EntityFilter(name) ==
    [kind |-> "In", Property |-> "dfslcp_dsc_entidade",
     Value |-> <<"'">> \o name \o <<"'">>]

\* Lines 486-506: the "Comparison" filter on the year, its literal f"{year}L"
YearFilter(year) ==
    [kind |-> "Comparison", Property |-> "dfslcp_num_ano_orcamento",
     Value |-> year.s \o <<"L">>]

\* config.py lines 179-385
PAYLOAD_STRUCTURE ==
    [Where   |-> <<EntityFilter(NameMunicipioDeFortaleza)>>,
     OrderBy |-> <<[Direction |-> 1, Property |-> "dfslcp_num_ordem"]>>,
     Window  |-> [Count |-> 500]]

\* Lines 342-353: command_structure["OrderBy"] = [...]
WithOrderBy(payload) ==
    [payload EXCEPT !.OrderBy =
        [i \in DOMAIN PAGINATION_ORDER_BY_COLUMNS |->
            [Direction |-> 1, Property |-> PAGINATION_ORDER_BY_COLUMNS[i]]]]

\* Lines 372-382: "Count" and "RestartTokens" of the window; count and
\* restart_tokens are None (PyNone, NoToken) when the caller gave none
WithWindow(payload, count, restart_tokens) ==
    [payload EXCEPT !.Window =
        IF restart_tokens # "none"
        THEN [Count |-> IF count.ty = "int" /\ count.n > 0 THEN count.n ELSE batch_size,
              RestartTokens |-> restart_tokens]
        ELSE [Count |-> IF count.ty = "int" /\ count.n > 0 THEN count.n ELSE batch_size]]

\* Lines 395-511: query_definition["Where"] without the entity filters and
\* the year filters that were there, with the filter of this entity and,
\* when a year is given, the filter of this year
WithFilters(payload, name, year) ==
    [payload EXCEPT !.Where =
        SelectSeq(Append(SelectSeq(payload.Where,
                                   LAMBDA f : f.Property \notin entity_column_names),
                         EntityFilter(name)),
                  LAMBDA f : ~(f.kind = "Comparison"
                               /\ f.Property = "dfslcp_num_ano_orcamento"))
          \o (IF year.ty = "none" THEN <<>> ELSE <<YearFilter(year)>>)]

\* What a call that raised gave its caller (lines 385-392)
ValueError == [error |-> "ValueError"]

\* get_precatorios_payload that works on self.base_payload itself
get_precatorios_payloadOnTemplate(entity_slug_or_official_name, count, year, restart_tokens) ==
    IF get_api_entity_name(entity_slug_or_official_name) = <<>>
    THEN [payload      |-> ValueError,
          base_payload |-> WithWindow(WithOrderBy(base_payload), count, restart_tokens)]
    ELSE [payload      |-> WithFilters(WithWindow(WithOrderBy(base_payload), count,
                                                  restart_tokens),
                                       get_api_entity_name(entity_slug_or_official_name),
                                       year),
          base_payload |-> WithFilters(WithWindow(WithOrderBy(base_payload), count,
                                                  restart_tokens),
                                       get_api_entity_name(entity_slug_or_official_name),
                                       year)]

\* get_precatorios_payload, lines 303-521: the payload it returns and
\* self.base_payload after the call.  Every write goes to the deepcopy of
\* line 312, so self.base_payload is what it was.
get_precatorios_payload(entity_slug_or_official_name, count, year, restart_tokens) ==
    IF get_api_entity_name(entity_slug_or_official_name) = <<>>
    THEN [payload |-> ValueError, base_payload |-> base_payload]
    ELSE [payload      |-> WithFilters(WithWindow(WithOrderBy(base_payload), count,
                                                  restart_tokens),
                                       get_api_entity_name(entity_slug_or_official_name),
                                       year),
          base_payload |-> base_payload]

\* csv_file before write_csv has run: no file
NoFile == <<"no file">>

\* crawls when one crawl runs alone
NoCrawls == <<>>

(***************************************************************************)
(* SpecDecode: normalize_to_rows as a function of one page                 *)
(***************************************************************************)
InitDecode ==
    /\ pc = "normalize"
    /\ page_data_response \in DecodePages
    /\ order_start \in StartOrders
    /\ last_order_number = 0
    /\ page_num = 0
    /\ current_restart_tokens = NoToken
    /\ all_normalized_rows = <<>>
    /\ attempts = 0
    /\ normalized_page_rows = <<>>
    /\ decoded_rows = <<>>
    /\ requests = <<>>
    /\ stop_reason = ""
    /\ last_outcome = "none"
    /\ entity_slug = SlugEstadoDoCeara
    /\ api_entity_name = NameEstadoDoCeara
    /\ current_entity_processed_records = 0
    /\ csv_file = NoFile
    /\ crawls = NoCrawls
    /\ cancel_requested = FALSE
    /\ entity_mapping = ENTITY_MAPPING
    /\ reverse_entity_mapping = REVERSE_ENTITY_MAPPING
    /\ base_payload = PAYLOAD_STRUCTURE
    /\ payloads = <<>>
    /\ raw_data = <<>>

\* normalized, last = self.normalize_to_rows([page], starting_order_number=n)
\* What the caller keeps of the result of normalize_to_rows
StoreNormalized(st) ==
    /\ normalized_page_rows' = st.rows
    /\ decoded_rows' = st.decoded
    /\ last_order_number' = st.order
    /\ current_entity_processed_records' = current_entity_processed_records + Len(st.rows)

NormalizeCall ==
    /\ pc = "normalize"
    /\ StoreNormalized(normalize_to_rows(<<page_data_response>>, order_start))
    /\ pc' = "normalized"
    /\ UNCHANGED <<page_num, current_restart_tokens, all_normalized_rows, attempts,
                   page_data_response, order_start, requests, stop_reason,
                   last_outcome, entity_slug, api_entity_name, csv_file, crawls,
                   cancel_requested,
                   entity_mapping, reverse_entity_mapping, base_payload, payloads,
                   raw_data>>

NextDecode == NormalizeCall

SpecDecode == InitDecode /\ [][NextDecode]_vars

(***************************************************************************)
(* write_csv                                                               *)
(***************************************************************************)
\* f"{value:,}" of the integer digits: a "." before every group of three
\* (the "," of the format, exchanged by line 66)
RECURSIVE GroupThousands(_)
GroupThousands(ip) ==
    IF Len(ip) <= 3 THEN ip
    ELSE GroupThousands(SubSeq(ip, 1, Len(ip) - 3)) \o <<".">>
            \o SubSeq(ip, Len(ip) - 2, Len(ip))

\* round(|x| * 100) of a parsed float of at most seven integer digits; a third
\* fraction digit of 5 or more rounds up
Cents(x) ==
    LET fp3 == SubSeq(x.fp \o <<"0", "0", "0">>, 1, 3)
    IN  DigitsToNat(x.ip) * 100 + DigitsToNat(SubSeq(fp3, 1, 2))
            + (IF DigitVal(fp3[3]) >= 5 THEN 1 ELSE 0)

\* format_currency(value), lines 65-67 (locale.currency of pt_BR.UTF-8, line
\* 63, writes the same text): "R$ 1.234,56"
format_currency(x) ==
    LET cents == Cents(x)
    IN  <<"R", "$", " ">> \o (IF x.neg /\ cents > 0 THEN <<"-">> ELSE <<>>)
            \o GroupThousands(NatToDigits(cents \div 100)) \o <<",">> \o Pad(cents % 100, 2)

\* Lines 1130-1161: ordered_row, as csv.DictWriter writes its values (str() of
\* each, "" for None); a Decimal is float() of its text
CsvRow(row_data) ==
    <<IntToStr(row_data.ordem),
      row_data.processo,
      row_data.comarca,
      IntToStr(row_data.ano_orcamento),
      row_data.natureza,
      IF row_data.data_cadastro.isnone THEN <<>>
      ELSE Pad(row_data.data_cadastro.d, 2) \o <<"/">> \o Pad(row_data.data_cadastro.m, 2)
              \o <<"/">> \o Pad(row_data.data_cadastro.y, 4),
      row_data.tipo_classificacao,
      format_currency(ParseFloat(row_data.valor_original)),
      format_currency(ParseFloat(row_data.valor_atual)),
      row_data.situacao>>

\* write_csv that writes nothing at all when it is given no record
write_csvSkipsEmpty(rows) ==
    IF rows = <<>> THEN <<>>
    ELSE <<csv_fields>> \o [i \in 1..Len(rows) |-> CsvRow(rows[i])]

\* write_csv(rows, out_file): the rows of the file, as csv.reader reads them
\* back.  Lines 1116-1123 write the header alone, lines 1178-1194 the header
\* and one row for every element of ordered_rows.
write_csv(rows) ==
    IF rows = <<>> THEN <<csv_fields>>
    ELSE <<csv_fields>> \o [i \in 1..Len(rows) |-> CsvRow(rows[i])]

(***************************************************************************)
(* SpecCoerce: one page whose base row holds a value of one field, decoded *)
(* by normalize_to_rows and written by write_csv                           *)
(***************************************************************************)
NameDataCadastro == <<"dfslcp_SAPRE_LISTA_CRONO_PRECATORIO", ".", "dfslcp_dat_cadastro">>
NameAnoOrcamento == <<"dfslcp_SAPRE_LISTA_CRONO_PRECATORIO", ".", "dfslcp_num_ano_orcamento">>
NameValorOriginal == <<"dfslcp_SAPRE_LISTA_CRONO_PRECATORIO", ".", "dfslcp_vlr_original">>
NameValorAtual == <<"dfslcp_SAPRE_LISTA_CRONO_PRECATORIO", ".", "ValorAtualFormatado">>

\* The wire values of a data_cadastro column: the tuple form with and without
\* the time, texts that are no date, epoch seconds, epoch milliseconds, serial
\* day counts and the values around their range
DateWireValues ==
    {PyStr(<<"d", "a", "t", "e", "t", "i", "m", "e", "(", "2", "0", "2", "2", ",", "1", ",", "1", "5", ",", "0", ",", "0", ",", "0", ")">>),
     PyStr(<<"d", "a", "t", "e", "t", "i", "m", "e", "(", "2", "0", "2", "2", ",", "1", ",", "1", "5", ")">>),
     PyStr(<<"a", "b", "c">>), PyStr(<<"1", "5", "/", "0", "1", "/", "2", "0", "2", "2">>),
     PyInt(1715558400), PyInt(1000000001),
     PyStr(<<"9", "9", "9", "9", "9", "9", "9", "9", "9", "9", "9">>),
     PyStr(<<"1", "7", "1", "5", "5", "5", "8", "4", "0", "0", "0", "0", "0">>), PyInt(2),
     PyInt(45000), PyInt(79999), PyStr(<<"4", "5", "0", "0", "0", ".", "5">>), PyInt(1),
     PyInt(80000), PyInt(0), PyNone}

\* The wire values of a valor_atual column
DecimalWireValues ==
    {PyStr(<<"1", ".", "2", "3", "4", ",", "5", "6">>),
     PyStr(<<"1", ",", "2", "3", "4", ".", "5", "6">>), PyStr(<<>>),
     PyStr(<<"R", "$", " ", "1", ".", "2", "3", "4", ",", "5", "6">>),
     PyStr(<<"1", "2", "3", "4", ".", "5", "6">>), PyStr(<<"1", ",", "5">>),
     PyStr(<<"a", "b", "c">>),
     PyStr(<<"1", ".", "2", "3", "4", ".", "5", "6", "7", ",", "8", "9">>),
     PyStr(<<"1", ",", "2", "3", "4", ",", "5", "6", "7", ".", "8", "9">>), PyInt(100), PyNone}

\* The wire values of an ano_orcamento column (type int)
IntWireValues ==
    {PyStr(<<"1", "2", "3", ".", "4", "5">>), PyStr(<<"1", "2", "3", "L">>), PyInt(123),
     PyStr(<<"R", "$", " ", "1", ".", "2", "3", "4", ",", "5", "6">>),
     PyStr(<<"1", ".", "2", "3", "4", ",", "5", "6">>),
     PyStr(<<"1", ",", "2", "3", "4", ".", "5", "6">>),
     PyStr(<<"R", "$", " ", "2", "0", "2", "4">>), PyStr(<<"a", "b", "c">>),
     PyStr(<<"-", "7", ".", "9">>), PyNone}

\* The wire values of a processo column
ProcessoWireValues ==
    {PyInt(123), PyInt(0), PyStr(<<" ", "1", "2", "-", "3", ".", "4", " ">>),
     PyStr(<<"1", "2", "/", "3", "4">>),
     PyStr(<<"0", "0", "0", "1", "2", "3", "4", "-", "5", "6", ".", "2", "0", "2", "0">>),
     PyStr(<<"/", "/">>), PyStr(<<" ">>)}

Str_1000 == <<"1", "0", "0", "0", ".", "0", "0">>
Str_1100 == <<"1", "1", "0", "0", ".", "0", "0">>
Str_900 == <<"9", "0", "0", ".", "0", "0">>

\* The columns of a page and the values of its base row
CoerceLayouts ==
    {[Select |-> <<NameProcesso, NameDataCadastro>>, C |-> <<PyStr(Str_P1), v>>] :
        v \in DateWireValues}
      \cup {[Select |-> <<NameProcesso, NameValorAtual>>, C |-> <<PyStr(Str_P1), v>>] :
              v \in DecimalWireValues}
      \cup {[Select |-> <<NameProcesso, NameAnoOrcamento>>, C |-> <<PyStr(Str_P1), v>>] :
              v \in IntWireValues}
      \cup {[Select |-> <<NameProcesso, NameComarca>>, C |-> <<v, PyStr(<<"X">>)>>] :
              v \in ProcessoWireValues}
      \cup {[Select |-> <<NameProcesso, NameOrdem>>, C |-> <<PyStr(Str_P1), v>>] :
              v \in {PyInt(3), PyInt(-5)}}
      \cup {[Select |-> <<NameProcesso, NameValorOriginal, NameValorAtual>>,
             C |-> <<PyStr(Str_P1), PyStr(Str_1000), PyStr(v)>>] :
              v \in {Str_1100, Str_1000, Str_900}}

\* The base row of a layout, every value given literally
CoerceBaseRow(layout) ==
    [C |-> layout.C, S |-> [i \in DOMAIN layout.C |-> [DN |-> NoDN]], R |-> NoR]

\* A second row that gives a new first column and repeats the other columns
CoerceDeltaRow(layout) ==
    [C |-> <<PyStr(Str_P2)>>, S |-> <<>>, R |-> 2 ^ Len(layout.C) - 2]

CoercePages ==
    {MakePage("ok", layout.Select, <<CoerceBaseRow(layout)>>, NoToken) :
        layout \in CoerceLayouts}
      \cup {MakePage("ok", layout.Select,
                     <<CoerceBaseRow(layout), CoerceDeltaRow(layout)>>, NoToken) :
              layout \in CoerceLayouts}

InitCoerce ==
    /\ pc = "normalize"
    /\ page_data_response \in CoercePages
    /\ order_start \in StartOrders
    /\ last_order_number = 0
    /\ page_num = 0
    /\ current_restart_tokens = NoToken
    /\ all_normalized_rows = <<>>
    /\ attempts = 0
    /\ normalized_page_rows = <<>>
    /\ decoded_rows = <<>>
    /\ requests = <<>>
    /\ stop_reason = ""
    /\ last_outcome = "none"
    /\ entity_slug = SlugEstadoDoCeara
    /\ api_entity_name = NameEstadoDoCeara
    /\ current_entity_processed_records = 0
    /\ csv_file = NoFile
    /\ crawls = NoCrawls
    /\ cancel_requested = FALSE
    /\ entity_mapping = ENTITY_MAPPING
    /\ reverse_entity_mapping = REVERSE_ENTITY_MAPPING
    /\ base_payload = PAYLOAD_STRUCTURE
    /\ payloads = <<>>
    /\ raw_data = <<>>

\* crawler.write_csv(all_rows, csv_temp_path) on the records of the page
WriteCsv ==
    /\ pc = "normalized"
    /\ csv_file' = write_csv(normalized_page_rows)
    /\ pc' = "written"
    /\ UNCHANGED <<page_num, current_restart_tokens, last_order_number,
                   all_normalized_rows, attempts, page_data_response,
                   normalized_page_rows, decoded_rows, order_start, requests,
                   stop_reason, last_outcome, entity_slug, api_entity_name,
                   current_entity_processed_records, crawls, cancel_requested,
                   entity_mapping, reverse_entity_mapping, base_payload, payloads,
                   raw_data>>

NextCoerce == NormalizeCall \/ WriteCsv

SpecCoerce == InitCoerce /\ [][NextCoerce]_vars

(***************************************************************************)
(* Spec: fetch_all_precatorios_data against a server that may answer every *)
(* request with a failure or with any page of CrawlPages and any token     *)
(***************************************************************************)
\* stop_after_attempt(3)
MaxAttempts == 3

\* The greatest number of pages of a crawl of Spec
MaxPages == 3

\* The greatest number of pages of a crawl of SpecLong
MaxLongPages == 101

Tokens == {"A", "B"}

PunctDelta == [C |-> <<PyStr(Str_Punct)>>, S |-> <<>>, R |-> 2]

\* A base row whose ordem column holds 3
OrdemBase == [C |-> <<PyInt(3), PyStr(Str_P1)>>, S |-> <<[DN |-> NoDN], [DN |-> NoDN]>>,
              R |-> NoR]

CrawlPages ==
    {MakePage("ok", SelectPC, <<GoodBase>>, NoToken),
     MakePage("ok", SelectPC, <<GoodBase, GoodDelta>>, NoToken),
     MakePage("ok", SelectPC, <<GoodBase, PunctDelta>>, NoToken),
     MakePage("ok", SelectPC, <<[GoodBase EXCEPT !.C = <<PyStr(Str_P1)>>], GoodDelta>>,
              NoToken),
     MakePage("ok", <<>>, <<GoodBase, GoodDelta>>, NoToken),
     MakePage("ok", <<NameOrdem, NameProcesso>>, <<OrdemBase>>, NoToken)}

\* A response whose "results" is missing or empty (lines 572-576)
NoResultsResponse == MakePage("no_results", <<>>, <<>>, NoToken)

NoResponse == MakePage("none", <<>>, <<>>, NoToken)

Responses(pages) ==
    {[p EXCEPT !.RT = t] : p \in pages, t \in Tokens \cup {NoToken}}
        \cup {NoResultsResponse}

Init ==
    /\ pc = "fetching"
    /\ page_num = 1
    /\ current_restart_tokens = NoToken
    /\ last_order_number = 0
    /\ all_normalized_rows = <<>>
    /\ attempts = 0
    /\ page_data_response = NoResponse
    /\ normalized_page_rows = <<>>
    /\ decoded_rows = <<>>
    /\ order_start = 0
    /\ requests = <<>>
    /\ stop_reason = ""
    /\ last_outcome = "none"
    /\ entity_slug = SlugEstadoDoCeara
    /\ api_entity_name = NameEstadoDoCeara
    /\ current_entity_processed_records = 0
    /\ csv_file = NoFile
    /\ crawls = NoCrawls
    /\ cancel_requested = FALSE
    /\ entity_mapping = ENTITY_MAPPING
    /\ reverse_entity_mapping = REVERSE_ENTITY_MAPPING
    /\ base_payload = PAYLOAD_STRUCTURE
    /\ payloads = <<>>
    /\ raw_data = <<>>

\* The ways one HTTP attempt of _fetch_page raises: raise_for_status() on a
\* 4xx or a 5xx answer (line 300), session.post on a network error or timeout
FailureOutcomes == {"http_4xx", "http_5xx", "connection_error"}

\* The values of "Direction" of an OrderBy entry: 1 ascending, 2 descending
Ascending == 1
Descending == 2

\* get_precatorios_payload lines 341-353: the "Direction" of every entry of
\* command_structure["OrderBy"]; restart_tokens takes no part in it
OrderByDirection(restart_tokens) == Ascending

\* The request _fetch_page sends for the current page: the payload that
\* get_precatorios_payload builds from the entity (lines 385 and 461), the
\* token (lines 379-382) and the sort direction
CurrentRequest ==
    [page |-> page_num, token |-> current_restart_tokens,
     direction |-> OrderByDirection(current_restart_tokens),
     entity |-> get_api_entity_name(api_entity_name)]

\* FetchAttemptFails for a crawler that gives up its records with the page
FetchAttemptFailsDropsRows(limit) ==
    /\ pc = "fetching"
    /\ page_num <= limit
    /\ attempts < MaxAttempts
    /\ attempts' = attempts + 1
    /\ requests' = Append(requests, CurrentRequest)
    /\ pc' = IF attempts + 1 = MaxAttempts THEN "done" ELSE "fetching"
    /\ stop_reason' = IF attempts + 1 = MaxAttempts THEN "fetch_failed" ELSE ""
    /\ all_normalized_rows' = IF attempts + 1 = MaxAttempts THEN <<>> ELSE all_normalized_rows
    /\ last_outcome' \in FailureOutcomes
    /\ UNCHANGED <<page_num, current_restart_tokens, last_order_number,
                   page_data_response, normalized_page_rows, decoded_rows, order_start,
                   entity_slug, api_entity_name, current_entity_processed_records,
                   csv_file, crawls, cancel_requested,
                   entity_mapping, reverse_entity_mapping, base_payload, payloads,
                   raw_data>>

\* FetchAttemptFails for a pagination loop that starts the page again when
\* the retries of _fetch_page are used up
FetchAttemptFailsTriesAgain(limit) ==
    /\ pc = "fetching"
    /\ page_num <= limit
    /\ attempts < MaxAttempts
    /\ attempts' = IF attempts + 1 = MaxAttempts THEN 0 ELSE attempts + 1
    /\ requests' = Append(requests, CurrentRequest)
    /\ pc' = "fetching"
    /\ stop_reason' = ""
    /\ last_outcome' \in FailureOutcomes
    /\ UNCHANGED <<page_num, current_restart_tokens, last_order_number,
                   all_normalized_rows, page_data_response, normalized_page_rows,
                   decoded_rows, order_start, entity_slug, api_entity_name,
                   current_entity_processed_records, csv_file, crawls, cancel_requested,
                   entity_mapping, reverse_entity_mapping, base_payload, payloads,
                   raw_data>>

\* _fetch_page: one attempt that raises (a network error, a timeout, or
\* raise_for_status on a 4xx or 5xx answer).  tenacity tries again until
\* MaxAttempts attempts were made, then raises RetryError, which the
\* "except Exception" of lines 669-677 turns into a break.
FetchAttemptFails(limit) ==
    /\ pc = "fetching"
    /\ page_num <= limit
    /\ attempts < MaxAttempts
    /\ attempts' = attempts + 1
    /\ requests' = Append(requests, CurrentRequest)
    /\ pc' = IF attempts + 1 = MaxAttempts THEN "done" ELSE "fetching"
    /\ stop_reason' = IF attempts + 1 = MaxAttempts THEN "fetch_failed" ELSE ""
    /\ last_outcome' \in FailureOutcomes
    /\ UNCHANGED <<page_num, current_restart_tokens, last_order_number,
                   all_normalized_rows, page_data_response, normalized_page_rows,
                   decoded_rows, order_start, entity_slug, api_entity_name,
                   current_entity_processed_records, csv_file, crawls, cancel_requested,
                   entity_mapping, reverse_entity_mapping, base_payload, payloads,
                   raw_data>>

\* FetchAttemptReturns for a loop that asks for the next page as soon as the
\* response has arrived, before normalize_to_rows has seen it
FetchAttemptReturnsPipelined(resp, limit) ==
    /\ pc = "fetching"
    /\ page_num <= limit
    /\ attempts < MaxAttempts
    /\ attempts' = 0
    /\ requests' = Append(requests, CurrentRequest)
    /\ page_data_response' = resp
    /\ page_num' = page_num + 1
    /\ pc' = "fetching"
    /\ last_outcome' = "ok"
    /\ UNCHANGED <<current_restart_tokens, last_order_number,
                   all_normalized_rows, normalized_page_rows, decoded_rows,
                   order_start, stop_reason, entity_slug, api_entity_name,
                   current_entity_processed_records, csv_file, crawls, cancel_requested,
                   entity_mapping, reverse_entity_mapping, base_payload, payloads,
                   raw_data>>

\* _fetch_page: one attempt that returns response.json()
FetchAttemptReturns(resp, limit) ==
    /\ pc = "fetching"
    /\ page_num <= limit
    /\ attempts < MaxAttempts
    /\ attempts' = attempts + 1
    /\ requests' = Append(requests, CurrentRequest)
    /\ page_data_response' = resp
    /\ pc' = "decoding"
    /\ last_outcome' = "ok"
    /\ UNCHANGED <<page_num, current_restart_tokens, last_order_number,
                   all_normalized_rows, normalized_page_rows, decoded_rows,
                   order_start, stop_reason, entity_slug, api_entity_name,
                   current_entity_processed_records, csv_file, crawls, cancel_requested,
                   entity_mapping, reverse_entity_mapping, base_payload, payloads,
                   raw_data>>

\* StopReason without the comparison of lines 634-640
StopReasonNoGuard(no_results, rows, new_restart_tokens) ==
    IF no_results THEN "empty_response"
    ELSE IF rows = <<>> THEN "empty_page"
    ELSE IF new_restart_tokens = NoToken THEN "no_token"
    ELSE ""

\* Lines 572-660: why the loop is left after this page, "" when it goes on
StopReason(no_results, rows, new_restart_tokens) ==
    IF no_results THEN "empty_response"
    ELSE IF rows = <<>> THEN "empty_page"
    ELSE IF new_restart_tokens = NoToken THEN "no_token"
    ELSE IF new_restart_tokens = current_restart_tokens THEN "duplicate_token"
    ELSE ""

\* Advance for a crawler that keeps the first continuation token it was given
AdvanceKeepsFirstToken(reason, new_restart_tokens) ==
    /\ current_restart_tokens' =
           IF reason = "" /\ current_restart_tokens = NoToken
           THEN new_restart_tokens ELSE current_restart_tokens
    /\ page_num' = IF reason = "" THEN page_num + 1 ELSE page_num
    /\ attempts' = IF reason = "" THEN 0 ELSE attempts
    /\ pc' = IF reason = "" THEN "fetching" ELSE "done"
    /\ stop_reason' = reason

\* Lines 628-660: the next iteration, or the break
Advance(reason, new_restart_tokens) ==
    /\ current_restart_tokens' =
           IF reason = "" THEN new_restart_tokens ELSE current_restart_tokens
    /\ page_num' = IF reason = "" THEN page_num + 1 ELSE page_num
    /\ attempts' = IF reason = "" THEN 0 ELSE attempts
    /\ pc' = IF reason = "" THEN "fetching" ELSE "done"
    /\ stop_reason' = reason

\* Lines 585-660, st being the result of normalize_to_rows for the page
KeepPage(no_results, st) ==
    /\ normalized_page_rows' = IF no_results THEN normalized_page_rows ELSE st.rows
    /\ decoded_rows' = IF no_results THEN decoded_rows ELSE st.decoded
    /\ order_start' = IF no_results THEN order_start ELSE last_order_number
    /\ last_order_number' = IF no_results THEN last_order_number ELSE st.order
    /\ all_normalized_rows' =
           IF no_results THEN all_normalized_rows ELSE all_normalized_rows \o st.rows
    /\ current_entity_processed_records' =
           IF no_results THEN current_entity_processed_records
           ELSE current_entity_processed_records + Len(st.rows)
    /\ Advance(StopReason(no_results, st.rows, page_data_response.RT),
               page_data_response.RT)

\* Lines 572-660: the rest of the loop body after _fetch_page returned
ProcessPage ==
    /\ pc = "decoding"
    /\ KeepPage(page_data_response.envelope = "no_results",
                normalize_to_rows(<<page_data_response>>, last_order_number))
    /\ UNCHANGED <<page_data_response, requests, last_outcome, entity_slug,
                   api_entity_name, csv_file, crawls, cancel_requested,
                   entity_mapping, reverse_entity_mapping, base_payload, payloads,
                   raw_data>>

FetchFails == FetchAttemptFails(MaxPages)

FetchReturns == \E resp \in Responses(CrawlPages) : FetchAttemptReturns(resp, MaxPages)

Next == FetchFails \/ FetchReturns \/ ProcessPage

Spec == Init /\ [][Next]_vars

(***************************************************************************)
(* SpecLong: the same crawl against a server that answers every request    *)
(* with a page of one record and a token that differs from the one sent    *)
(***************************************************************************)
FetchReturnsFresh ==
    \E t \in Tokens :
        /\ t # current_restart_tokens
        /\ FetchAttemptReturns(MakePage("ok", SelectPC, <<GoodBase>>, t), MaxLongPages)

NextLong == FetchReturnsFresh \/ ProcessPage

SpecLong == Init /\ [][NextLong]_vars

(***************************************************************************)
(* SpecEntity: fetch_all_precatorios_data from its first line, for any     *)
(* entity of EntityInputs, against the server of Spec                      *)
(***************************************************************************)
\* The greatest page number SpecEntity fetches
MaxEntityPages == 1

\* A slug that is not in the table
SlugUnknown == <<"o", "r", "g", "a", "o", "-", "x">>

\* What the caller may pass for the entity: the slugs of the table, an official
\* name of the table, a slug of the table in capitals and with spaces, a slug
\* and a name that are not in the table, the empty text and a text of
\* punctuation only
EntityInputs ==
    DOMAIN ENTITY_MAPPING
      \cup {NameEstadoDoCeara, unslugify(SlugMunicipioDeRedencao), SlugUnknown, <<"O_acute", "r", "g", "a_tilde", "o", " ", "X", "!">>,
            <<>>, <<"/", "/">>}

InitEntity ==
    /\ pc = "resolving"
    /\ entity_slug \in EntityInputs
    /\ api_entity_name = <<>>
    /\ page_num = 1
    /\ current_restart_tokens = NoToken
    /\ last_order_number = 0
    /\ all_normalized_rows = <<>>
    /\ attempts = 0
    /\ page_data_response = NoResponse
    /\ normalized_page_rows = <<>>
    /\ decoded_rows = <<>>
    /\ order_start = 0
    /\ requests = <<>>
    /\ stop_reason = ""
    /\ last_outcome = "none"
    /\ current_entity_processed_records = 0
    /\ csv_file = NoFile
    /\ crawls = NoCrawls
    /\ cancel_requested = FALSE
    /\ entity_mapping = ENTITY_MAPPING
    /\ reverse_entity_mapping = REVERSE_ENTITY_MAPPING
    /\ base_payload = PAYLOAD_STRUCTURE
    /\ payloads = <<>>
    /\ raw_data = <<>>

\* Lines 531-536: api_entity_name is kept, and an empty one ends the crawl
\* with the empty list
KeepEntityName(name) ==
    /\ api_entity_name' = name
    /\ pc' = IF name = <<>> THEN "done" ELSE "fetching"
    /\ stop_reason' = IF name = <<>> THEN "unknown_entity" ELSE ""

ResolveEntity ==
    /\ pc = "resolving"
    /\ KeepEntityName(get_api_entity_name(entity_slug))
    /\ UNCHANGED <<page_num, current_restart_tokens, last_order_number,
                   all_normalized_rows, attempts, page_data_response,
                   normalized_page_rows, decoded_rows, order_start, requests,
                   last_outcome, entity_slug, current_entity_processed_records,
                   csv_file, crawls, cancel_requested,
                   entity_mapping, reverse_entity_mapping, base_payload, payloads,
                   raw_data>>

FetchFailsEntity == FetchAttemptFails(MaxEntityPages)

FetchReturnsEntity ==
    \E resp \in Responses(CrawlPages) : FetchAttemptReturns(resp, MaxEntityPages)

NextEntity == ResolveEntity \/ FetchFailsEntity \/ FetchReturnsEntity \/ ProcessPage

SpecEntity == InitEntity /\ [][NextEntity]_vars

(***************************************************************************)
(* SpecCancel: the crawl of Spec while its caller may ask it to stop.      *)
(* fetch_all_precatorios_data takes no token, event or flag of             *)
(* cancellation, and no line of its loop (556-680) reads one: the request  *)
(* of the caller changes cancel_requested and nothing else.                *)
(***************************************************************************)
\* The greatest number of pages of a crawl of SpecCancel
MaxCancelPages == 2

\* The caller of the crawl asks it to stop
SignalCancel ==
    /\ ~cancel_requested
    /\ pc # "done"
    /\ cancel_requested' = TRUE
    /\ UNCHANGED <<pc, page_num, current_restart_tokens, last_order_number,
                   all_normalized_rows, attempts, page_data_response,
                   normalized_page_rows, decoded_rows, order_start, requests,
                   stop_reason, last_outcome, entity_slug, api_entity_name,
                   current_entity_processed_records, csv_file, crawls,
                   entity_mapping, reverse_entity_mapping, base_payload, payloads,
                   raw_data>>

FetchFailsCancel == FetchAttemptFails(MaxCancelPages)

FetchReturnsCancel ==
    \E resp \in Responses(CrawlPages) : FetchAttemptReturns(resp, MaxCancelPages)

NextCancel == FetchFailsCancel \/ FetchReturnsCancel \/ ProcessPage \/ SignalCancel

SpecCancel == Init /\ [][NextCancel]_vars

(***************************************************************************)
(* SpecShared: two requests of the REST front end at once.  main.py builds *)
(* one PrecatoriosCrawler (line 373) and every request handler calls       *)
(* fetch_all_precatorios_data on it, so the normalize_to_rows calls of two *)
(* requests share self.current_entity_processed_records.  Line 1066,       *)
(* self.current_entity_processed_records += 1, reads the attribute, adds   *)
(* one and writes the attribute; no lock is held, so a step of the other   *)
(* call may fall between the read and the write.                           *)
(*   crawls[i]: [page, pc, todo, emitted, loaded]                          *)
(*     page     the response the call decodes                              *)
(*     pc       "load" before the read, "store" before the write, "done"   *)
(*     todo     the records the call has still to emit                     *)
(*     emitted  the records it has appended to normalized_rows             *)
(*     loaded   the value its read of the attribute gave                   *)
(***************************************************************************)
CrawlIds == {1, 2}

\* A call of normalize_to_rows on page, before its first record
StartCrawl(page) ==
    LET n == Len(normalize_to_rows(<<page>>, 0).rows)
    IN  [page |-> page, pc |-> IF n = 0 THEN "done" ELSE "load", todo |-> n,
         emitted |-> 0, loaded |-> 0]

InitShared ==
    /\ pc = "shared"
    /\ crawls \in {[i \in CrawlIds |-> StartCrawl(IF i = 1 THEN p1 ELSE p2)] :
                      p1 \in CrawlPages, p2 \in CrawlPages}
    /\ current_entity_processed_records = 0
    /\ page_data_response = NoResponse
    /\ order_start = 0
    /\ last_order_number = 0
    /\ page_num = 0
    /\ current_restart_tokens = NoToken
    /\ all_normalized_rows = <<>>
    /\ attempts = 0
    /\ normalized_page_rows = <<>>
    /\ decoded_rows = <<>>
    /\ requests = <<>>
    /\ stop_reason = ""
    /\ last_outcome = "none"
    /\ entity_slug = SlugEstadoDoCeara
    /\ api_entity_name = NameEstadoDoCeara
    /\ csv_file = NoFile
    /\ cancel_requested = FALSE
    /\ entity_mapping = ENTITY_MAPPING
    /\ reverse_entity_mapping = REVERSE_ENTITY_MAPPING
    /\ base_payload = PAYLOAD_STRUCTURE
    /\ payloads = <<>>
    /\ raw_data = <<>>

\* Lines 1065-1066: normalized_rows.append(dumped_row), then the read of
\* self.current_entity_processed_records
LoadCounter(i) ==
    /\ crawls[i].pc = "load"
    /\ crawls' = [crawls EXCEPT ![i].pc = "store",
                                ![i].emitted = @ + 1,
                                ![i].loaded = current_entity_processed_records]
    /\ UNCHANGED <<pc, page_num, current_restart_tokens, last_order_number,
                   all_normalized_rows, attempts, page_data_response,
                   normalized_page_rows, decoded_rows, order_start, requests,
                   stop_reason, last_outcome, entity_slug, api_entity_name,
                   current_entity_processed_records, csv_file, cancel_requested,
                   entity_mapping, reverse_entity_mapping, base_payload, payloads,
                   raw_data>>

\* Line 1066: the write of self.current_entity_processed_records, then the
\* next row of the page
StoreCounter(i) ==
    /\ crawls[i].pc = "store"
    /\ current_entity_processed_records' = crawls[i].loaded + 1
    /\ crawls' = [crawls EXCEPT ![i].pc = IF crawls[i].todo = 1 THEN "done" ELSE "load",
                                ![i].todo = @ - 1]
    /\ UNCHANGED <<pc, page_num, current_restart_tokens, last_order_number,
                   all_normalized_rows, attempts, page_data_response,
                   normalized_page_rows, decoded_rows, order_start, requests,
                   stop_reason, last_outcome, entity_slug, api_entity_name,
                   csv_file, cancel_requested,
                   entity_mapping, reverse_entity_mapping, base_payload, payloads,
                   raw_data>>

LoadStep == \E i \in CrawlIds : LoadCounter(i)

StoreStep == \E i \in CrawlIds : StoreCounter(i)

NextShared == LoadStep \/ StoreStep

SpecShared == InitShared /\ [][NextShared]_vars

(***************************************************************************)
(* The variables of the crawl when no crawl runs, and the module-level     *)
(* dicts as the import leaves them                                         *)
(***************************************************************************)
crawl_vars ==
    <<pc, page_num, current_restart_tokens, last_order_number, all_normalized_rows,
      attempts, page_data_response, normalized_page_rows, decoded_rows, order_start,
      requests, stop_reason, last_outcome, entity_slug, api_entity_name,
      current_entity_processed_records, csv_file, crawls, cancel_requested>>

Idle(position) ==
    /\ pc = position
    /\ page_num = 0
    /\ current_restart_tokens = NoToken
    /\ last_order_number = 0
    /\ all_normalized_rows = <<>>
    /\ attempts = 0
    /\ page_data_response = NoResponse
    /\ normalized_page_rows = <<>>
    /\ decoded_rows = <<>>
    /\ order_start = 0
    /\ requests = <<>>
    /\ stop_reason = ""
    /\ last_outcome = "none"
    /\ entity_slug = SlugEstadoDoCeara
    /\ api_entity_name = NameEstadoDoCeara
    /\ current_entity_processed_records = 0
    /\ csv_file = NoFile
    /\ crawls = NoCrawls
    /\ cancel_requested = FALSE

(***************************************************************************)
(* SpecPages: normalize_to_rows as a function of a list of two pages       *)
(***************************************************************************)
\* ValueDicts whose dictionary D0 is not the one of the other pages
ValueDictsZ == <<[name |-> "D0", vals |-> <<PyStr(<<"Z">>)>>]>>

\* The pages of the lists: pages of one and of two rows that give records,
\* the same with another dictionary, a page whose first row has no schema, a
\* page whose first row has one value too few, a page without descriptors
ListPages ==
    {MakePage("ok", SelectPC, <<GoodBase>>, NoToken),
     MakePage("ok", SelectPC, <<GoodBase, GoodDelta>>, NoToken),
     [MakePage("ok", SelectPC, <<GoodBase>>, NoToken) EXCEPT !.ValueDicts = ValueDictsZ],
     [MakePage("ok", SelectPC, <<GoodBase, GoodDelta>>, NoToken)
        EXCEPT !.ValueDicts = ValueDictsZ],
     MakePage("ok", SelectPC, <<[GoodBase EXCEPT !.S = <<>>], GoodDelta>>, NoToken),
     MakePage("ok", SelectPC, <<[GoodBase EXCEPT !.C = <<PyStr(Str_P1)>>], GoodDelta>>,
              NoToken),
     MakePage("ok", <<>>, <<GoodBase, GoodDelta>>, NoToken),
     MakePage("ok", <<NameOrdem, NameProcesso>>, <<OrdemBase>>, NoToken)}

InitPages ==
    /\ Idle("normalize")
    /\ entity_mapping = ENTITY_MAPPING
    /\ reverse_entity_mapping = REVERSE_ENTITY_MAPPING
    /\ base_payload = PAYLOAD_STRUCTURE
    /\ payloads = <<>>
    /\ raw_data \in {<<p, q>> : p \in ListPages, q \in ListPages}

\* rows, last = self.normalize_to_rows(raw_data)
NormalizeList ==
    /\ pc = "normalize"
    /\ StoreNormalized(normalize_to_rows(raw_data, order_start))
    /\ pc' = "normalized"
    /\ UNCHANGED <<page_num, current_restart_tokens, all_normalized_rows, attempts,
                   page_data_response, order_start, requests, stop_reason,
                   last_outcome, entity_slug, api_entity_name, csv_file, crawls,
                   cancel_requested, entity_mapping, reverse_entity_mapping,
                   base_payload, payloads, raw_data>>

NextPages == NormalizeList

SpecPages == InitPages /\ [][NextPages]_vars

(***************************************************************************)
(* SpecCrawl: crawl(entity_slug, out_file), the crawl of Spec followed by  *)
(* what crawl does with the list fetch_all_precatorios_data returned       *)
(***************************************************************************)
\* The greatest number of pages a full crawl requests
MaxFullCrawlPages == 2

FetchFailsCrawl == FetchAttemptFails(MaxFullCrawlPages)

FetchReturnsCrawl ==
    \E resp \in Responses(CrawlPages) : FetchAttemptReturns(resp, MaxFullCrawlPages)

\* crawl, lines 1212-1239, once fetch_all_precatorios_data has returned
\* raw_data: it returns when raw_data is empty, hands raw_data to
\* normalize_to_rows as the list of pages, returns when that gives no rows
\* and writes the rows otherwise
CrawlFinish ==
    /\ pc = "done"
    /\ raw_data' = all_normalized_rows
    /\ pc' = "returned"
    /\ csv_file' =
          IF all_normalized_rows = <<>> THEN csv_file
          ELSE IF normalize_to_rows(all_normalized_rows, 0).rows = <<>> THEN csv_file
          ELSE write_csv(normalize_to_rows(all_normalized_rows, 0).rows)
    /\ current_entity_processed_records' =
          current_entity_processed_records
              + Len(normalize_to_rows(all_normalized_rows, 0).rows)
    /\ UNCHANGED <<page_num, current_restart_tokens, last_order_number,
                   all_normalized_rows, attempts, page_data_response,
                   normalized_page_rows, decoded_rows, order_start, requests,
                   stop_reason, last_outcome, entity_slug, api_entity_name, crawls,
                   cancel_requested, entity_mapping, reverse_entity_mapping,
                   base_payload, payloads>>

NextCrawl == FetchFailsCrawl \/ FetchReturnsCrawl \/ ProcessPage \/ CrawlFinish

SpecCrawl == Init /\ [][NextCrawl]_vars

(***************************************************************************)
(* SpecMapping: calls of add_entity_mapping on the two tables              *)
(***************************************************************************)
\* The slugs of the calls: one of the table, once as the table spells it and
\* once as slugify has to normalise it, and two the table does not hold
MappingSlugs ==
    {SlugEstadoDoCeara, <<"E", "s", "t", "a", "d", "o", " ", "d", "o", " ", "C", "e", "a", "r", "a">>,
     <<"n", "o", "v", "o">>, <<"x">>}

\* The official names of the calls: one of the table and two it does not hold
MappingNames == {NameEstadoDoCeara, <<"N", "O", "V", "O">>, <<"X">>}

InitMapping ==
    /\ Idle("mapping")
    /\ entity_mapping = ENTITY_MAPPING
    /\ reverse_entity_mapping = REVERSE_ENTITY_MAPPING
    /\ base_payload = PAYLOAD_STRUCTURE
    /\ payloads = <<>>
    /\ raw_data = <<>>

\* add_entity_mapping, lines 291-295
add_entity_mapping(slug, api_name) ==
    /\ entity_mapping' = DictSet(entity_mapping, slugify(slug), api_name)
    /\ reverse_entity_mapping' = DictSet(reverse_entity_mapping, api_name, slugify(slug))
    /\ UNCHANGED <<crawl_vars, base_payload, payloads, raw_data>>

AddEntityMapping ==
    \E slug \in MappingSlugs, api_name \in MappingNames : add_entity_mapping(slug, api_name)

NextMapping == AddEntityMapping

SpecMapping == InitMapping /\ [][NextMapping]_vars

(***************************************************************************)
(* SpecPayload: calls of get_precatorios_payload on one crawler            *)
(***************************************************************************)
\* The greatest number of get_precatorios_payload calls
MaxPayloadCalls == 2

\* The arguments of the calls: an entity of the table, one that is not in it
\* and one whose slug is empty; no count and a count; no year and a year; no
\* token and a token
PayloadEntities == {SlugEstadoDoCeara, <<"x">>, <<"!">>}
PayloadCounts == {PyNone, PyInt(100)}
PayloadYears == {PyNone, PyInt(2024)}
PayloadTokens == {NoToken, "A"}

InitPayload ==
    /\ Idle("payload")
    /\ entity_mapping = ENTITY_MAPPING
    /\ reverse_entity_mapping = REVERSE_ENTITY_MAPPING
    /\ base_payload = PAYLOAD_STRUCTURE
    /\ payloads = <<>>
    /\ raw_data = <<>>

\* payload = self.get_precatorios_payload(entity, count, restart_tokens, year)
\* (lines 269-274); payloads keeps the token of the call with what it returned
BuildPayload ==
    /\ Len(payloads) < MaxPayloadCalls
    /\ \E e \in PayloadEntities, c \in PayloadCounts, y \in PayloadYears, rt \in PayloadTokens :
          /\ payloads' = Append(payloads,
                                [restart_tokens |-> rt,
                                 payload |-> get_precatorios_payload(e, c, y, rt).payload])
          /\ base_payload' = get_precatorios_payload(e, c, y, rt).base_payload
    /\ UNCHANGED <<crawl_vars, entity_mapping, reverse_entity_mapping, raw_data>>

NextPayload == BuildPayload

SpecPayload == InitPayload /\ [][NextPayload]_vars

(***************************************************************************)
(* The crawl: properties of Spec and SpecLong                              *)
(***************************************************************************)
\* C1: the records fetch_all_precatorios_data has accumulated carry ordem
\* 1, 2, ..., N in list order, whatever ordem the wire carried, however the
\* rows were spread over the pages and whichever rows were dropped.
C1_OrdemIsPosition ==
    \A i \in DOMAIN all_normalized_rows : all_normalized_rows[i].ordem = i

\* A crawl of two pages has ended; page 2 carried the wire ordem 3 for the
\* record that is returned second
C1_Witness ==
    /\ pc = "done"
    /\ page_num = 2
    /\ Len(all_normalized_rows) = 2
    /\ Len(decoded_rows) = 1
    /\ decoded_rows[1].emitted
    /\ decoded_rows[1].row.ordem = <<"3">>
    /\ all_normalized_rows[2].ordem = 2

\* The response to the request in flight repeats the token that request sent
DuplicateTokenResponse ==
    /\ pc = "decoding"
    /\ page_num >= 2
    /\ page_data_response.envelope = "ok"
    /\ page_data_response.RT # NoToken
    /\ page_data_response.RT = requests[Len(requests)].token

\* C2: when the response to page k, k >= 2, carries the token that was sent
\* with the request for page k, the crawl ends there: no request follows, and
\* the records of page k are appended to those of pages 1..k-1.  Nothing is
\* requested once the crawl has ended.
C2_DuplicateTokenEndsCrawl ==
    [][/\ DuplicateTokenResponse =>
            /\ pc' = "done"
            /\ requests' = requests
            /\ all_normalized_rows' =
                 all_normalized_rows
                    \o normalize_to_rows(<<page_data_response>>, last_order_number).rows
       /\ pc = "done" => requests' = requests]_vars

\* The crawl ended on a repeated token at page 2, with the records of page 2
\* at the end of the result
C2_Witness ==
    /\ stop_reason = "duplicate_token"
    /\ pc = "done"
    /\ page_num = 2
    /\ Len(requests) = 2
    /\ page_data_response.RT = requests[2].token
    /\ normalized_page_rows # <<>>
    /\ Len(all_normalized_rows) = order_start + Len(normalized_page_rows)
    /\ order_start >= 1

\* C4: when the last attempt of the retry budget for page k fails, the crawl
\* ends without a further request and with the records of pages 1..k-1 as they
\* were: fetch_all_precatorios_data returns them, it does not raise.
C4_FetchFailureKeepsRecords ==
    [][(pc = "fetching" /\ attempts' = MaxAttempts /\ pc' # "decoding") =>
          /\ pc' = "done"
          /\ stop_reason' = "fetch_failed"
          /\ all_normalized_rows' = all_normalized_rows
          /\ last_order_number' = last_order_number
          /\ Len(requests') = Len(requests) + 1
          /\ \A i \in 1..MaxAttempts :
                requests'[Len(requests') + 1 - i].page = page_num]_vars

\* Page 2 could not be fetched, and the records of page 1 are the result
C4_Witness ==
    /\ stop_reason = "fetch_failed"
    /\ pc = "done"
    /\ page_num = 2
    /\ attempts = MaxAttempts
    /\ all_normalized_rows # <<>>
    /\ Len(all_normalized_rows) = last_order_number

\* C3: a crawl sends at most 100 page requests, whatever the server answers
C3_AtMost100Requests == Len(requests) <= 100

\* Whether a page fails a structural check of normalize_to_rows
StructurallyInvalid(resp_json) ==
    \/ ~PageHasRows(resp_json)
    \/ resp_json.DM0[1].S = <<>>
    \/ Len(resp_json.DM0[1].C) # Len(resp_json.DM0[1].S)

\* C5: after a structurally invalid page whose response carries a fresh token,
\* the crawl requests the next page
C5_InvalidPageIsSkipped ==
    [][(/\ pc = "decoding"
        /\ page_data_response.envelope = "ok"
        /\ StructurallyInvalid(page_data_response)
        /\ page_data_response.RT # NoToken
        /\ page_data_response.RT # requests[Len(requests)].token) =>
          /\ pc' = "fetching"
          /\ page_num' = page_num + 1]_vars

(***************************************************************************)
(* The decoding of one page: properties of SpecDecode                      *)
(***************************************************************************)
\* The page normalize_to_rows was called with has passed its structural checks
DecodedValidPage == pc = "normalized" /\ ~StructurallyInvalid(page_data_response)

\* The rows k >= 2 of the page that carry an inherit mask
MaskedRows ==
    {k \in 2..Len(page_data_response.DM0) : page_data_response.DM0[k].R # NoR}

\* The number of zero bits of the mask among the columns before column i
ZeroBitsBefore(rulifier_r, i) == Cardinality({c \in 1..(i - 1) : Bit(rulifier_r, c) = 0})

\* The canonical field of column i of the page, "" for none
FieldOfColumn(i) == ColumnField(page_data_response.Select, i)

\* The base row's schema
PageSchema == page_data_response.DM0[1].S

\* The value the base-row rule gives field f for a raw value
BaseRule(schema_item, raw, f) ==
    LET r == ResolveBase(schema_item, raw, page_data_response.ValueDicts)
    IN  IF r.resolved THEN CoerceBase(r.val, field_mapping[f].type) ELSE DefaultRow[f]

\* C6: a page that passes the structural checks gives one record per row of
\* its row list, whatever the values of its columns
C6_OneRecordPerRow ==
    DecodedValidPage => Len(normalized_page_rows) = Len(page_data_response.DM0)

\* C7: in a row with an inherit mask, a column whose bit is 1 holds the value
\* of the row before, and a column whose bit is 0 holds the resolution of the
\* sparse value whose position is the number of zero bits among the columns
\* before it, counted over all the columns of the schema
C7_DeltaInheritance ==
    DecodedValidPage =>
      \A k \in MaskedRows : \A i \in 1..Len(PageSchema) :
        LET f   == FieldOfColumn(i)
            row == page_data_response.DM0[k]
            j   == ZeroBitsBefore(row.R, i)
        IN  f # "" =>
              IF Bit(row.R, i) = 1
              THEN decoded_rows[k].row[f] = decoded_rows[k - 1].row[f]
              ELSE j < Len(row.C) =>
                     decoded_rows[k].row[f] =
                        ResolveDelta(PageSchema[i], row.C[j + 1],
                                     page_data_response.ValueDicts,
                                     field_mapping[f].type, decoded_rows[k - 1].row[f])

\* C8: in the base row, a column whose schema entry names a dictionary and
\* whose value is an index of that dictionary holds the dictionary's entry, and
\* a column whose schema entry names no dictionary holds its own value
C8_BaseRowResolution ==
    DecodedValidPage =>
      /\ ~decoded_rows[1].skipped
      /\ \A i \in 1..Len(PageSchema) :
           LET f  == FieldOfColumn(i)
               c  == page_data_response.DM0[1].C[i]
               vd == VDLookup(page_data_response.ValueDicts, PageSchema[i].DN)
           IN  f # "" =>
                 /\ (/\ PageSchema[i].DN # NoDN
                     /\ vd.found
                     /\ c.ty = "int"
                     /\ 0 <= c.n
                     /\ c.n < Len(vd.vals)) =>
                        decoded_rows[1].row[f] =
                           _format_value(vd.vals[c.n + 1], field_mapping[f].type)
                 /\ PageSchema[i].DN = NoDN =>
                        decoded_rows[1].row[f] = _format_value(c, field_mapping[f].type)

\* A base row whose comarca is index 0 of D0 and whose processo is literal
C8_Witness ==
    /\ DecodedValidPage
    /\ page_data_response.Select = SelectPC
    /\ PageSchema = <<[DN |-> NoDN], [DN |-> "D0"]>>
    /\ page_data_response.DM0[1].C = <<PyStr(Str_P1), PyInt(0)>>
    /\ decoded_rows[1].emitted
    /\ decoded_rows[1].row.comarca = <<"X">>
    /\ decoded_rows[1].row.processo = Str_P1
    /\ normalized_page_rows[1].comarca = <<"X">>

\* C9: in a row whose mask has more zero bits than the row has sparse values,
\* the zero-bit columns that are left without a value hold the value of the
\* row before, and the row gives a record
C9_SparseExhaustion ==
    DecodedValidPage =>
      \A k \in MaskedRows :
        LET row == page_data_response.DM0[k]
        IN  ZeroBitsBefore(row.R, Len(PageSchema) + 1) > Len(row.C) =>
              /\ decoded_rows[k].emitted
              /\ \A i \in 1..Len(PageSchema) :
                   LET f == FieldOfColumn(i)
                   IN  (/\ f # ""
                        /\ Bit(row.R, i) = 0
                        /\ ZeroBitsBefore(row.R, i) >= Len(row.C)) =>
                          decoded_rows[k].row[f] = decoded_rows[k - 1].row[f]

\* C10: a new value of a masked row is the value the base-row rule gives for
\* the same schema entry, dictionaries and raw value (stated for the pages
\* all of whose columns are mapped, where every zero bit consumes a value)
C10_DeltaResolvesAsBase ==
    (DecodedValidPage /\ \A i \in 1..Len(PageSchema) : FieldOfColumn(i) # "") =>
      \A k \in MaskedRows : \A i \in 1..Len(PageSchema) :
        LET f   == FieldOfColumn(i)
            row == page_data_response.DM0[k]
            j   == ZeroBitsBefore(row.R, i)
        IN  (Bit(row.R, i) = 0 /\ j < Len(row.C)) =>
               decoded_rows[k].row[f] = BaseRule(PageSchema[i], row.C[j + 1], f)

(***************************************************************************)
(* Columns that map to no canonical field                                  *)
(***************************************************************************)
\* Row k of a page without the first column of the page: the base row loses
\* its first value and schema entry, a masked row loses the lowest bit of its
\* mask and, when that bit is 0, the sparse value that belongs to it
WithoutFirstColumnRow(row, k) ==
    IF k = 1 THEN [row EXCEPT !.C = Tail(row.C), !.S = Tail(row.S)]
    ELSE IF row.R = NoR THEN row
    ELSE [row EXCEPT !.R = row.R \div 2,
                     !.C = IF Bit(row.R, 1) = 0 THEN Tail(row.C) ELSE row.C]

\* The page without its first column
WithoutFirstColumn(resp_json) ==
    [resp_json EXCEPT !.Select = Tail(resp_json.Select),
                      !.DM0 = [k \in 1..Len(resp_json.DM0) |->
                                  WithoutFirstColumnRow(resp_json.DM0[k], k)]]

\* The decoded page has two columns, the first of them maps to no canonical
\* field, and every masked row holds one sparse value per zero bit of its mask
FirstColumnIsExtra ==
    /\ DecodedValidPage
    /\ Len(page_data_response.Select) = 2
    /\ Len(PageSchema) = 2
    /\ FieldOfColumn(1) = ""
    /\ \A k \in MaskedRows :
         Len(page_data_response.DM0[k].C) =
            ZeroBitsBefore(page_data_response.DM0[k].R, 3)

\* C11: a column that maps to no canonical field has no effect: the page
\* gives the records that the same page gives without that column (without
\* its descriptor, schema entry, mask bit and sparse values)
C11_UnmappedColumnIgnored ==
    FirstColumnIsExtra =>
      normalized_page_rows =
        normalize_to_rows(<<WithoutFirstColumn(page_data_response)>>, order_start).rows

\* The decoded page passed the envelope checks and its base row has a schema
\* whose length is not the number of column descriptors of the page
SchemaLengthMismatch ==
    /\ pc = "normalized"
    /\ PageHasRows(page_data_response)
    /\ PageSchema # <<>>
    /\ Len(PageSchema) # Len(page_data_response.Select)

\* C12: a page whose base-row schema length differs from the number of its
\* column descriptors gives no record
C12_SchemaMismatchGivesNoRecord == SchemaLengthMismatch => normalized_page_rows = <<>>

(***************************************************************************)
(* The names of the request template                                       *)
(***************************************************************************)
\* config.py lines 204, 281 and 263: columns of the Select list of the request
\* template, each with the canonical field whose api_name it carries
TemplateColumns ==
    {[name |-> NameProcesso, field |-> "processo"],
     [name |-> NameComarca,  field |-> "comarca"],
     [name |-> NameSumOrdem, field |-> "ordem"]}

\* C13: a column of the decoded page that bears a name of the request
\* template, the Sum(...) ones included, resolves to the base name of its
\* canonical field and is mapped to that field
C13_TemplateNamesAreMapped ==
    pc = "normalized" =>
      \A i \in 1..Len(page_data_response.Select) : \A t \in TemplateColumns :
        page_data_response.Select[i] = t.name =>
          /\ _get_base_field_name(t.name) = <<field_mapping[t.field].api_name>>
          /\ MappedField(_get_base_field_name(t.name)) = t.field

(***************************************************************************)
(* The requests of a crawl: properties of Spec                             *)
(***************************************************************************)
\* C14: a request without continuation token is built with the ascending sort
\* direction and a request with a continuation token with the descending one
C14_DirectionFollowsToken ==
    \A i \in DOMAIN requests :
        requests[i].direction =
            IF requests[i].token = NoToken THEN Ascending ELSE Descending

\* C15: a request of page 1 carries no continuation token, and a request of a
\* later page carries the token of the last response received, which is the
\* response to the page before
C15_TokenThreading ==
    [][Len(requests') = Len(requests) + 1 =>
         LET sent == requests'[Len(requests')]
         IN  /\ sent.page = page_num
             /\ IF page_num = 1
                THEN sent.token = NoToken
                ELSE /\ sent.token # NoToken
                     /\ sent.token = page_data_response.RT]_vars

\* The request of page 3 carries the token of the response to page 2, and not
\* the older token that the request of page 2 carried
C15_Witness ==
    /\ Len(requests) >= 3
    /\ requests[Len(requests)].page = 3
    /\ requests[Len(requests)].token = "B"
    /\ \E i \in DOMAIN requests : requests[i].page = 2 /\ requests[i].token = "A"

\* The HTTP attempts sent so far for page p
AttemptsOfPage(p) == {i \in DOMAIN requests : requests[i].page = p}

\* C16: no page is sent more than MaxAttempts HTTP attempts, and when the
\* last of them fails the crawl ends with the fetch failure
C16_RetryBudget ==
    /\ \A p \in 1..page_num : Cardinality(AttemptsOfPage(p)) <= MaxAttempts
    /\ (attempts = MaxAttempts /\ last_outcome \in FailureOutcomes) =>
          (pc = "done" /\ stop_reason = "fetch_failed")

\* Page 2 was sent MaxAttempts attempts, all of which failed, after page 1
\* had given its records
C16_Witness ==
    /\ pc = "done"
    /\ stop_reason = "fetch_failed"
    /\ page_num = 2
    /\ Cardinality(AttemptsOfPage(2)) = MaxAttempts
    /\ last_outcome = "http_5xx"
    /\ all_normalized_rows # <<>>

\* C17: an attempt that is answered with a 4xx status is the last attempt of
\* its page: no request follows it
C17_ClientErrorNotRetried ==
    [][last_outcome = "http_4xx" => requests' = requests]_vars

\* Line 685: what fetch_all_precatorios_data returns
fetch_all_result == all_normalized_rows

\* What fetch_all_precatorios_data returns when the answer to page 1 is a page
\* of CrawlPages with records and no continuation token, which ends the crawl
\* at lines 647-653
CompleteOnePageResults ==
    {rows \in {normalize_to_rows(<<p>>, 0).rows : p \in CrawlPages} : rows # <<>>}

\* C18: the value returned by a crawl that ended on a failed fetch tells it
\* apart from a crawl that ended because no token was returned: it is not the
\* value that such a crawl returns
C18_ResultTellsPartialFromComplete ==
    (pc = "done" /\ stop_reason = "fetch_failed") =>
        fetch_all_result \notin CompleteOnePageResults

\* A crawl that ended because no token was returned, with a result that a
\* crawl ended by a failed fetch of page 2 returns too
C18_CompleteCrawl ==
    /\ pc = "done"
    /\ stop_reason = "no_token"
    /\ page_num = 1
    /\ fetch_all_result = normalize_to_rows(<<MakePage("ok", SelectPC, <<GoodBase>>, NoToken)>>, 0).rows

(***************************************************************************)
(* The entity of a crawl: properties of SpecEntity                         *)
(***************************************************************************)
\* C19: for an entity whose normalized form is not a key of the table, the
\* crawl ends with the unknown-entity error and sends no request
C19_UnknownSlugRejected ==
    (pc # "resolving" /\ slugify(entity_slug) \notin DOMAIN ENTITY_MAPPING) =>
        /\ pc = "done"
        /\ stop_reason = "unknown_entity"
        /\ requests = <<>>

\* C20: for a slug of the table, get_api_entity_name gives the name the table
\* holds for it, and slugify of that name is the slug again
C20_EntityRoundTrip ==
    (pc # "resolving" /\ entity_slug \in DOMAIN ENTITY_MAPPING) =>
        /\ api_entity_name = ENTITY_MAPPING[entity_slug]
        /\ slugify(ENTITY_MAPPING[entity_slug]) = entity_slug

\* The crawl of municipio-de-redencao, whose name has three accented letters,
\* has resolved the name and sent a request with it
C20_Witness ==
    /\ entity_slug = SlugMunicipioDeRedencao
    /\ api_entity_name = NameMunicipioDeRedencao
    /\ slugify(api_entity_name) = entity_slug
    /\ requests # <<>>
    /\ requests[1].entity = NameMunicipioDeRedencao

(***************************************************************************)
(* The coercions: properties of SpecCoerce                                 *)
(***************************************************************************)
\* normalize_to_rows has returned for the page
Decoded == pc \in {"normalized", "written"}

\* The value the base row of the page holds in the column read with field_type
WireValue(column_name) ==
    LET at == {i \in DOMAIN page_data_response.Select :
                   page_data_response.Select[i] = column_name}
    IN  page_data_response.DM0[1].C[CHOOSE i \in at : TRUE]

\* The page has the column, in the position pos
HasColumn(column_name, pos) ==
    /\ Len(page_data_response.Select) >= pos
    /\ page_data_response.Select[pos] = column_name

\* text is datetime(Y,M,D[,h,m,s]) for a date that exists
IsTupleForm(text) ==
    /\ Len(text) > 10
    /\ SubSeq(text, 1, 9) = <<"d", "a", "t", "e", "t", "i", "m", "e", "(">>
    /\ text[Len(text)] = ")"
    /\ Count(text, ")") = 1
    /\ Len(SplitComma(SubSeq(text, 10, Len(text) - 1))) \in {3, 6}
    /\ ~DatetimeOfTuple(text).isnone

\* C21: a data_cadastro that arrives as the text datetime(Y,M,D[,h,m,s])
\* leaves the decode pipeline as that date-time, datetime(2022,1,15,0,0,0)
\* as 2022-01-15T00:00:00; a text that is neither that form nor a number
\* leaves it as null; in both cases the record is emitted.
C21_TextDateCoercion ==
    (Decoded /\ HasColumn(NameDataCadastro, 2) /\ WireValue(NameDataCadastro).ty = "str")
        => LET text == WireValue(NameDataCadastro).s
           IN  /\ normalized_page_rows # <<>>
               /\ IsTupleForm(text) =>
                     normalized_page_rows[1].data_cadastro = DatetimeOfTuple(text)
               /\ text = <<"d", "a", "t", "e", "t", "i", "m", "e", "(", "2", "0", "2", "2", ",", "1", ",", "1", "5", ",", "0", ",", "0", ",", "0", ")">> =>
                     normalized_page_rows[1].data_cadastro =
                         [isnone |-> FALSE, y |-> 2022, m |-> 1, d |-> 15, secs |-> 0,
                          micro |-> 0]
               /\ (~IsTupleForm(text) /\ ~ParseFloat(text).ok) =>
                     normalized_page_rows[1].data_cadastro.isnone

\* The number a text with "," and "." stands for when the separator that
\* occurs last is the decimal mark and the other one is dropped
LastSeparatorIsDecimalMark(text) ==
    LET t == Strip(text)
    IN  ParseFloat(IF RFind(t, ".") < RFind(t, ",")
                   THEN ReplaceChar(RemoveChar(t, "."), ",", ".")
                   ELSE RemoveChar(t, ","))

\* C22: a valor_atual text that holds both "," and "." leaves the decode
\* pipeline as the number it stands for with the last separator as decimal
\* mark ("1.234,56" and "1,234.56" both as 1234.56), and the empty text as 0.
C22_DecimalCoercion ==
    (Decoded /\ HasColumn(NameValorAtual, 2) /\ WireValue(NameValorAtual).ty = "str")
        => LET text == WireValue(NameValorAtual).s
           IN  /\ normalized_page_rows # <<>>
               /\ (/\ Contains(text, ",")
                   /\ Contains(text, ".")
                   /\ LastSeparatorIsDecimalMark(text).ok)
                     => ParseFloat(normalized_page_rows[1].valor_atual)
                            = LastSeparatorIsDecimalMark(text)
               /\ text \in {<<"1", ".", "2", "3", "4", ",", "5", "6">>,
                            <<"1", ",", "2", "3", "4", ".", "5", "6">>}
                     => ParseFloat(normalized_page_rows[1].valor_atual)
                            = ParseFloat(<<"1", "2", "3", "4", ".", "5", "6">>)
               /\ text = <<>>
                     => ParseFloat(normalized_page_rows[1].valor_atual)
                            = ParseFloat(<<"0", ".", "0", "0">>)

\* The date 1899-12-30 plus v whole days, written as _format_value writes a date
SerialDay(v) == DateStr(CivilFromDays(v - 25569))

\* C23: _format_value gives a numeric data_cadastro between the second
\* threshold 10^9 and the millisecond threshold 10^11 (1715558400 is one) a
\* date, and a whole number v with 1 < v < 80000 the date 1899-12-30 plus v
\* days.
C23_NumericDateClasses ==
    (Decoded /\ HasColumn(NameDataCadastro, 2) /\ ParseFloat(WireValue(NameDataCadastro).s).ok)
        => LET ts == ParseFloat(WireValue(NameDataCadastro).s)
               out == decoded_rows[1].row.data_cadastro
           IN  /\ (/\ FloatGt(ts, <<"1", "0", "0", "0", "0", "0", "0", "0", "0", "0">>)
                   /\ FloatLt(ts, <<"1", "0", "0", "0", "0", "0", "0", "0", "0", "0", "0", "0">>))
                     => out # <<>> /\ ~normalized_page_rows[1].data_cadastro.isnone
               /\ (FloatGt(ts, <<"1">>) /\ FloatLt(ts, <<"8", "0", "0", "0", "0">>) /\ ts.fp = <<>>)
                     => out = SerialDay(DigitsToNat(ts.ip))
               /\ ts.ip = <<"4", "5", "0", "0", "0">> /\ ts.fp = <<>>
                     => out = <<"2", "0", "2", "3", "-", "0", "3", "-", "1", "5">>

\* C24: a processo that arrives as a number leaves the decode pipeline
\* zero-padded to 20 digits, and a processo that arrives as a string leaves it
\* without its leading and trailing whitespace and otherwise unchanged.
C24_IdentifierCoercion ==
    (Decoded /\ HasColumn(NameProcesso, 1) /\ HasColumn(NameComarca, 2))
        => LET v == WireValue(NameProcesso)
           IN  /\ (v.ty = "int" /\ v.n >= 0)
                     => /\ decoded_rows[1].emitted
                        /\ normalized_page_rows[1].processo = Zeros(20 - Len(v.s)) \o v.s
               /\ (v.ty = "str" /\ decoded_rows[1].emitted)
                     => normalized_page_rows[1].processo = Strip(v.s)

\* The whole number a text stands for: the currency symbol dropped, the
\* thousands separators dropped (of "," and "." the one that does not occur
\* last), the fraction cut off; 0 for a text that is no number
TruncatedNumber(text) ==
    LET t == Strip(RemoveCurrency(text))
        x == IF Contains(t, ",") /\ Contains(t, ".")
             THEN LastSeparatorIsDecimalMark(t)
             ELSE ParseFloat(t)
    IN  IF x.ok THEN IntStrOfFloat(x) ELSE <<"0">>

\* C25: _format_value with type int gives the text of a number without its
\* currency symbol, thousands separators and fraction ("123.45" gives "123"),
\* and "0" for a text that is no number.
C25_IntegerCoercion ==
    (Decoded /\ HasColumn(NameAnoOrcamento, 2) /\ WireValue(NameAnoOrcamento).ty = "str")
        => LET text == WireValue(NameAnoOrcamento).s
               out  == decoded_rows[1].row.ano_orcamento
           IN  /\ text = <<"1", "2", "3", ".", "4", "5">> => out = <<"1", "2", "3">>
               /\ (Contains(text, ",") => Contains(text, ".")) => out = TruncatedNumber(text)

(***************************************************************************)
(* write_csv: properties of SpecCoerce                                     *)
(***************************************************************************)
\* C26: the file write_csv writes starts with the header row ordem, processo,
\* comarca, ano_orcamento, natureza, data_cadastro, tipo_classificacao,
\* valor_original, valor_atual, situacao; zero records give that row alone,
\* n records give it followed by one row for each record, in the order of the
\* records.
C26_CsvHeaderAndRows ==
    pc = "written"
        => /\ Len(csv_file) = 1 + Len(normalized_page_rows)
           /\ csv_file[1] = <<"ordem", "processo", "comarca", "ano_orcamento", "natureza",
                              "data_cadastro", "tipo_classificacao", "valor_original",
                              "valor_atual", "situacao">>
           /\ \A i \in 1..Len(normalized_page_rows) :
                 /\ Len(csv_file[i + 1]) = 10
                 /\ csv_file[i + 1][1] = IntToStr(normalized_page_rows[i].ordem)
                 /\ csv_file[i + 1][2] = normalized_page_rows[i].processo

\* A file of two records has been written
C26_Witness ==
    /\ pc = "written"
    /\ Len(normalized_page_rows) = 2
    /\ csv_file[2][2] = Str_P1
    /\ csv_file[3][2] = Str_P2

\* A file of no record has been written
C26_EmptyFileWritten == pc = "written" /\ normalized_page_rows = <<>> /\ csv_file # NoFile

(***************************************************************************)
(* The Precatorio model: properties of SpecCoerce                          *)
(***************************************************************************)
\* x < y for two parsed floats that are not negative
FloatLess(x, y) ==
    \/ CmpDigits(x.ip, y.ip) = -1
    \/ /\ x.ip = y.ip
       /\ \E k \in 1..6 :
             LET xs == SubSeq(x.fp \o Zeros(6), 1, 6)
                 ys == SubSeq(y.fp \o Zeros(6), 1, 6)
             IN  SubSeq(xs, 1, k - 1) = SubSeq(ys, 1, k - 1)
                   /\ DigitVal(xs[k]) < DigitVal(ys[k])

\* C27: a record whose ordem is negative, whose processo is empty or whose
\* valor_atual is less than its valor_original is rejected by the Precatorio
\* model, so normalize_to_rows emits no record for it.
C27_InconsistentRecordRejected ==
    Decoded
        => \A k \in DOMAIN decoded_rows :
              LET row == decoded_rows[k].row
              IN  (\/ (IsIntText(Strip(row.ordem)) /\ Strip(row.ordem)[1] = "-")
                   \/ row.processo = <<>>
                   \/ FloatLess(ParseFloat(row.valor_atual), ParseFloat(row.valor_original)))
                      => ~decoded_rows[k].emitted

(***************************************************************************)
(* The order of the pages: properties of Spec                              *)
(***************************************************************************)
\* The page of the HTTP attempt sent last
LastRequestedPage == requests[Len(requests)].page

\* tail is the end of rows
IsSuffix(tail, rows) ==
    /\ Len(tail) <= Len(rows)
    /\ SubSeq(rows, Len(rows) - Len(tail) + 1, Len(rows)) = tail

\* C28: the pages of a crawl are requested one after the other, page k + 1
\* only when the response to page k has been received and decoded, no request
\* being sent while a response waits to be decoded; and the records of a page
\* stand behind the records of every earlier page and carry greater ordem.
C28_SequentialPagination ==
    /\ \A i \in 1..(Len(requests) - 1) :
          requests[i + 1].page \in {requests[i].page, requests[i].page + 1}
    /\ requests # <<>> => requests[1].page = 1
    /\ pc = "decoding" => requests # <<>> /\ LastRequestedPage = page_num
    /\ (pc = "fetching" /\ attempts > 0) => LastRequestedPage = page_num
    /\ (pc = "fetching" /\ page_num > 1) =>
          /\ LastRequestedPage = (IF attempts = 0 THEN page_num - 1 ELSE page_num)
          /\ page_data_response.envelope # "none"
          /\ normalized_page_rows # <<>>
          /\ normalized_page_rows
                 = normalize_to_rows(<<page_data_response>>, order_start).rows
    /\ IsSuffix(normalized_page_rows, all_normalized_rows)
    /\ \A i \in 1..(Len(all_normalized_rows) - Len(normalized_page_rows)) :
          \A j \in DOMAIN normalized_page_rows :
              all_normalized_rows[i].ordem < normalized_page_rows[j].ordem

\* The request for the third page is about to be sent, two pages are decoded
C28_Witness ==
    /\ pc = "fetching"
    /\ page_num = 3
    /\ attempts = 0
    /\ LastRequestedPage = 2
    /\ Len(all_normalized_rows) > Len(normalized_page_rows)
    /\ normalized_page_rows # <<>>

(***************************************************************************)
(* The shared counter: a property of SpecShared                            *)
(***************************************************************************)
\* C29: when the two crawls that run at once on the shared crawler have both
\* finished, its processed-records counter equals the number of records the
\* two have emitted together, whatever the order of their steps.
C29_NoLostUpdate ==
    (\A i \in CrawlIds : crawls[i].pc = "done")
        => current_entity_processed_records = crawls[1].emitted + crawls[2].emitted

(***************************************************************************)
(* Cancellation: a property of SpecCancel                                  *)
(***************************************************************************)
\* C30: once the cancellation of a crawl has been signalled, the crawl sends
\* no further page request.
C30_NoRequestAfterCancel == [][cancel_requested => requests' = requests]_vars

(***************************************************************************)
(* The entity tables: a property of SpecMapping                            *)
(***************************************************************************)
\* C31: after any calls of add_entity_mapping the two tables are inverse to
\* each other: every official name of the reverse table is the name the forward
\* table gives its slug, and every slug of the forward table is the slug the
\* reverse table gives its name.
C31_ReverseDerivedFromForward ==
    /\ \A n \in DOMAIN reverse_entity_mapping :
          /\ reverse_entity_mapping[n] \in DOMAIN entity_mapping
          /\ entity_mapping[reverse_entity_mapping[n]] = n
    /\ \A s \in DOMAIN entity_mapping :
          /\ entity_mapping[s] \in DOMAIN reverse_entity_mapping
          /\ reverse_entity_mapping[entity_mapping[s]] = s

(***************************************************************************)
(* The request template: a property of SpecPayload                         *)
(***************************************************************************)
\* The entity filters of a payload
EntityFiltersOf(payload) ==
    {i \in DOMAIN payload.Where : payload.Where[i].Property \in entity_column_names}

\* C36: after any calls of get_precatorios_payload the template is what
\* config.py made it, and every payload built without a token has no
\* "RestartTokens" in its window and exactly one entity filter, whatever the
\* calls before it were given.
C36_TemplateUnchanged ==
    /\ base_payload = PAYLOAD_STRUCTURE
    /\ \A i \in DOMAIN payloads :
          (payloads[i].restart_tokens = NoToken /\ payloads[i].payload # ValueError)
              => /\ "RestartTokens" \notin DOMAIN payloads[i].payload.Window
                 /\ Cardinality(EntityFiltersOf(payloads[i].payload)) = 1

\* A payload was built with a token and another one, without a token, after it
C36_Witness ==
    /\ Len(payloads) = 2
    /\ payloads[1].restart_tokens # NoToken
    /\ payloads[1].payload # ValueError
    /\ "RestartTokens" \in DOMAIN payloads[1].payload.Window
    /\ payloads[2].restart_tokens = NoToken
    /\ payloads[2].payload # ValueError

(***************************************************************************)
(* The rows of one page: properties of SpecDecode                          *)
(***************************************************************************)
\* The decoded page reached the row loop and its first row has no schema, or
\* a number of values that is not the length of its schema
BaseRowFails ==
    /\ pc = "normalized"
    /\ PageHasRows(page_data_response)
    /\ \/ page_data_response.DM0[1].S = <<>>
       \/ Len(page_data_response.DM0[1].C) # Len(page_data_response.DM0[1].S)

InheritedFields(k) ==
    IF page_data_response.DM0[k].R = NoR THEN FieldNames
    ELSE {f \in FieldNames :
            \A i \in 1..Len(PageSchema) :
                FieldOfColumn(i) = f => Bit(page_data_response.DM0[k].R, i) = 1}

\* C33: every decoded row after the first holds, in the fields it inherits,
\* the decoded values of the wire row just before it, whether or not that
\* row passed the validation of the record model and gave a record.
C33_InheritsFromPrecedingRow ==
    (pc = "normalized" /\ Len(decoded_rows) = Len(page_data_response.DM0))
        => \A k \in 2..Len(decoded_rows) :
              ~decoded_rows[k].skipped
                  => \A f \in InheritedFields(k) :
                        decoded_rows[k].row[f] = decoded_rows[k - 1].row[f]

\* The second of three rows failed the validation after it had changed the
\* comarca, and the third row, which gave a record, holds that comarca and not
\* the one of the first row, the last that gave a record
C33_Witness ==
    /\ pc = "normalized"
    /\ Len(decoded_rows) = 3
    /\ decoded_rows[1].emitted
    /\ ~decoded_rows[2].skipped /\ ~decoded_rows[2].emitted
    /\ decoded_rows[3].emitted
    /\ "comarca" \in InheritedFields(3)
    /\ decoded_rows[3].row["comarca"] = decoded_rows[2].row["comarca"]
    /\ decoded_rows[3].row["comarca"] # decoded_rows[1].row["comarca"]

(***************************************************************************)
(* The pages of one list: a property of SpecPages                          *)
(***************************************************************************)
\* Records without their ordem
WithoutOrdem(rows) == [i \in DOMAIN rows |-> [rows[i] EXCEPT !.ordem = 0]]

\* C34: the records and the decoded rows that a list of two pages gives are,
\* ordem apart, those of its first page decoded alone followed by those of its
\* second page decoded alone: nothing of the decoding of a page depends on the
\* page decoded before it.
C34_PageDecodedAlone ==
    (pc = "normalized" /\ Len(raw_data) = 2)
        => /\ WithoutOrdem(normalized_page_rows)
                 = WithoutOrdem(normalize_to_rows(<<raw_data[1]>>, 0).rows
                                  \o normalize_to_rows(<<raw_data[2]>>, 0).rows)
           /\ decoded_rows = normalize_to_rows(<<raw_data[1]>>, 0).decoded
                                \o normalize_to_rows(<<raw_data[2]>>, 0).decoded

\* A list was decoded whose two pages both gave records and have different
\* dictionaries, the second page after the first page had left a schema and a
\* previous row
C34_Witness ==
    /\ pc = "normalized"
    /\ Len(raw_data) = 2
    /\ raw_data[1].ValueDicts # raw_data[2].ValueDicts
    /\ Len(normalize_to_rows(<<raw_data[1]>>, 0).rows) = 2
    /\ Len(normalize_to_rows(<<raw_data[2]>>, 0).rows) = 2
    /\ Len(normalized_page_rows) = 4
    /\ normalized_page_rows[3].ordem = 3

(***************************************************************************)
(* The full crawl: a property of SpecCrawl                                 *)
(***************************************************************************)
\* C35: when crawl has returned and fetch_all_precatorios_data had given it
\* one record or more, the file holds the header and one row for each of
\* those records.
C35_CrawlWritesWhatItFetched ==
    (pc = "returned" /\ Len(all_normalized_rows) >= 1)
        => csv_file = write_csv(all_normalized_rows)


=============================================================================
